---- MODULE Spec2Model ----
(***************************************************************************)
(* Model of computer-management-api: the notification client               *)
(* (internal/notification/client.go) with its health probe, the security   *)
(* middleware (RateLimit, getClientIP, RequestTimeout), the computer       *)
(* handlers with their background threshold check, and the                 *)
(* ComputerService's CreateComputer.                                       *)
(*                                                                         *)
(* Time is discrete.  One tick is the unit in which RetryDelay, Timeout    *)
(* and context deadlines are expressed.  Texts (error messages, payloads)  *)
(* are strings; strings.Contains, strconv-style %d formatting and          *)
(* json.Marshal are computed character by character.                       *)
(***************************************************************************)
EXTENDS Integers, Sequences, FiniteSets, TLC

VARIABLES
    config,        \* notificationClient.config (NotificationConfig)
    pc,            \* position of the one Send call: idle, attempt, backoff, done
    entry,         \* which entry point was called
    notification,  \* the (stamped) Notification being sent
    ctx,           \* the context Send runs under
    attempt,       \* the loop variable of SendNotificationWithContext
    timer,         \* ticks left on time.After(RetryDelay * attempt)
    reqLeft,       \* ticks left on http.Client.Timeout for the request in flight
    invocations,   \* number of times the transport (client.Do) was invoked
    lastErr,       \* the loop's lastErr
    result,        \* what Send returned
    obs,           \* what an observer of the run has seen (history): the
                   \* number of 500 answers, whether any other outcome came,
                   \* the kind and status of the last failed attempt, whether
                   \* the context was done when it failed, whether an attempt
                   \* started after that, whether a wait was cut short, and
                   \* the ticks spent in backoff waits so far
    health,        \* the one IsHealthy call: its position, the number of
                   \* requests it made, what came back, and what it returned
    secConfig,     \* SecurityMiddleware.config (RateLimitRPS, RateLimitBurst)
    clients,       \* SecurityMiddleware.clients: client key -> limiter
    limiters,      \* the rate.Limiter objects allocated so far
    mu,            \* SecurityMiddleware.mu: the request holding it, 0 when free
    reqs,          \* the requests passing through RateLimit
    now,           \* the clock of the rate limiter, in ticks
    stats,         \* per client key: decisions seen so far (history)
    resp,          \* per request: the decision of the limiter, the status
                   \* RateLimit wrote, and how often next.ServeHTTP ran
    peers,         \* the requests whose client key is resolved (getClientIP)
    registry,      \* the Asset Registry: computer -> employee code
    commits,       \* number of mutations the registry has committed
    tasks,         \* the handler requests and the checks they started
    marks,         \* per employee: what has happened to the count (history)
    last,          \* the last handler that ran or check that ended (history)
    store,         \* the Asset Registry as the ComputerService sees it
    calls,         \* the ComputerService.CreateComputer calls and their checks
    timed          \* the requests passing through RequestTimeout

sendVars == <<config, pc, entry, notification, ctx, attempt, timer, reqLeft,
              invocations, lastErr, result, obs, health>>

rateVars == <<secConfig, clients, limiters, mu, reqs, now, stats, resp>>

keyVars == <<peers>>

policyVars == <<registry, commits, tasks, marks, last>>

serviceVars == <<store, calls>>

timeoutVars == <<timed>>

vars == <<sendVars, rateVars, keyVars, policyVars, serviceVars, timeoutVars>>

---------------------------------------------------------------------------
(* Bounds of the model. *)

MaxRetryAttempts == 2
MaxRetryDelay == 1
MaxTimeout == 2
MaxDeadline == 2
MaxRPS == 2
MaxBurst == 2
MaxRequests == 3
MaxNow == 2
TicksPerSecond == 2
MaxTasks == 2
MaxCalls == 2
MaxTimed == 2

(* Program constants. *)

MaxMessageLen == 1000
MaxEmployeeLen == 10
MinErrorStatus == 400
StatusTooManyRequests == 429
StatusOK == 200
StatusCreated == 201
StatusBadRequest == 400
StatusNotFound == 404
StatusRequestTimeout == 408
StatusConflict == 409
StatusInternalServerError == 500
MaxComputersThreshold == 3
MaxComputersPerEmployee == 3
MinEmployeeAbbrevLength == 2
MaxEmployeeAbbrevLength == 10
NotificationTimeout == 5
GetComputersByEmployeeTimeout == 10
UnhealthyStatus == 500
EmployeeAbbrevExactLength == 3

---------------------------------------------------------------------------
(* Texts. *)

\* strings.Contains(s, substr)
Contains(s, substr) ==
    \E i \in 0..(Len(s) - Len(substr)) : SubSeq(s, i + 1, i + Len(substr)) = substr

Digit(d) == SubSeq("0123456789", d + 1, d + 1)

\* the %d verb of fmt for a non-negative integer
RECURSIVE Itoa(_)
Itoa(n) == IF n < 10 THEN Digit(n) ELSE Itoa(n \div 10) \o Digit(n % 10)

\* strings.Repeat(s, count)
RECURSIVE Repeat(_, _)
Repeat(s, count) ==
    IF count = 0 THEN ""
    ELSE LET half == Repeat(s, count \div 2)
         IN  half \o half \o (IF count % 2 = 1 THEN s ELSE "")

\* the nil error
Nil == "<nil>"

---------------------------------------------------------------------------
(* Notification: validation, defaults and wire format. *)

validLevels == {"info", "warning", "error", "critical"}

\* Validate without the check of the level against the enumerated values
Validate_NoLevelCheck(n) ==
    IF n.Level = "" THEN "notification level is required"
    ELSE IF n.Message = "" THEN "notification message is required"
    ELSE IF Len(n.Message) > MaxMessageLen
        THEN "notification message too long (max 1000 characters)"
    ELSE IF n.EmployeeAbbreviation # "" /\ Len(n.EmployeeAbbreviation) > MaxEmployeeLen
        THEN "employee abbreviation too long (max 10 characters)"
    ELSE Nil

Validate(n) ==
    IF n.Level = "" THEN "notification level is required"
    ELSE IF n.Message = "" THEN "notification message is required"
    ELSE IF Len(n.Message) > MaxMessageLen
        THEN "notification message too long (max 1000 characters)"
    ELSE IF n.EmployeeAbbreviation # "" /\ Len(n.EmployeeAbbreviation) > MaxEmployeeLen
        THEN "employee abbreviation too long (max 10 characters)"
    ELSE IF n.Level \notin validLevels
        THEN "invalid notification level: " \o n.Level
    ELSE Nil

\* time.Now() as json.Marshal renders it (RFC 3339 with nanoseconds)
Now == "2026-01-15T10:30:00.123456789+01:00"

\* lines 139-147: timestamp and source defaults
Stamp(n) ==
    [n EXCEPT !.Timestamp = IF @ = "" THEN Now ELSE @,
              !.Source = IF @ = "" THEN "computer-management-api" ELSE @]

\* a map[string]string as encoding/json writes it; the model keeps the
\* entries as a sequence of <<key, value>> in key order
RECURSIVE MarshalEntries(_)
MarshalEntries(m) ==
    IF m = <<>> THEN ""
    ELSE "\"" \o m[1][1] \o "\":\"" \o m[1][2] \o "\""
         \o (IF Len(m) > 1 THEN "," ELSE "") \o MarshalEntries(Tail(m))

\* json.Marshal(notification) with the struct tags of Notification; the
\* texts of the model hold no character that JSON escapes
Marshal(n) ==
    "{\"level\":\"" \o n.Level
    \o "\",\"employeeAbbreviation\":\"" \o n.EmployeeAbbreviation
    \o "\",\"message\":\"" \o n.Message
    \o "\",\"timestamp\":\"" \o n.Timestamp \o "\""
    \o (IF n.Source = "" THEN "" ELSE ",\"source\":\"" \o n.Source \o "\"")
    \o (IF n.Metadata = <<>> THEN ""
        ELSE ",\"metadata\":{" \o MarshalEntries(n.Metadata) \o "}")
    \o "}"

---------------------------------------------------------------------------
(* Error texts of the client. *)

invalidNotification(err) == "invalid notification: " \o err

payloadTooLarge(size, max) ==
    "notification payload too large: " \o Itoa(size) \o " bytes (max " \o Itoa(max) \o ")"

\* client.Do failed: net/http wraps the cause in a *url.Error
requestError(url, cause) ==
    "failed to send request: Post \"" \o url \o "\": " \o cause

statusError(status, body) ==
    "notification service returned error status " \o Itoa(status) \o ": " \o body

aggregateError(attempts, err) ==
    "failed to send notification after " \o Itoa(attempts) \o " attempts: " \o err

\* ctx.Err()
ctxErrText(c) ==
    IF c.err = "canceled" THEN "context canceled" ELSE "context deadline exceeded"

clientTimeoutText ==
    "context deadline exceeded (Client.Timeout exceeded while awaiting headers)"

---------------------------------------------------------------------------
(* Inputs. *)

URLs == {"http://notifier:8080/api/notify", "http://10.0.0.1:4000/notify"}

MaxPayloadSizes == {100, 1024}

Configs ==
    [URL : URLs,
     Timeout : 1..MaxTimeout,
     RetryAttempts : 0..MaxRetryAttempts,
     RetryDelay : 0..MaxRetryDelay,
     MaxPayloadSize : MaxPayloadSizes]

mk(level, emp, msg) ==
    [Level |-> level, EmployeeAbbreviation |-> emp, Message |-> msg,
     Timestamp |-> "", Source |-> "", Metadata |-> <<>>]

Notifications ==
    {mk(l, "ABC", "Test message") : l \in {"", "warning", "debug"}}
    \cup {mk("warning", Repeat("E", MaxEmployeeLen + 1), "Test message")}
    \cup {mk("critical", "ABC", Repeat("a", k)) :
            k \in {0, MaxMessageLen, MaxMessageLen + 1}}
    \cup {[mk("info", "ABC", "Too many computers") EXCEPT
             !.Timestamp = "2026-01-15T10:30:00Z",
             !.Source = "handler",
             !.Metadata = <<<<"count", "3">>, <<"threshold", "3">>>>]}

\* the contexts a caller of SendNotificationWithContext passes: left is the
\* number of ticks to the deadline (-1: no deadline)
Contexts ==
    [left : {-1} \cup 1..MaxDeadline, err : {"none"}, cancellable : {TRUE}]

Statuses == {200, 400, 404, 500}

Bodies == {"", "invalid request"}

TransportCauses == {"EOF"}

\* the client keys getClientIP returns
Keys == {"10.0.0.7", "10.0.0.8"}

\* the lists config.TrustedProxies holds
ProxyLists == {<<>>, <<"10.0.0.1">>, <<"172.16.0.2", "[::1]">>}

SecurityConfigs ==
    [RateLimitRPS : 1..MaxRPS, RateLimitBurst : 1..MaxBurst,
     TrustedProxies : {<<"10.0.0.1">>}]

---------------------------------------------------------------------------
(* The retry loop of SendNotificationWithContext. *)

\* the loop condition off by one
LoopContinues_OneMore(a) == a <= config.RetryAttempts + 1

\* line 150: the loop condition
LoopContinues(a) == a <= config.RetryAttempts

\* the test of lines 166-169 without the payload-size text
dontRetry_NoPayloadCase(err) ==
    \/ Contains(err, "400")
    \/ Contains(err, "invalid")
    \/ Contains(err, "failed to marshal")

\* lines 166-169: the errors that end the loop at once
dontRetry(err) ==
    \/ Contains(err, "400")
    \/ Contains(err, "invalid")
    \/ Contains(err, "payload too large")
    \/ Contains(err, "failed to marshal")

\* a wait that does not listen to the context (a plain sleep)
SelectReady_TimerOnly(ctxDone, timerFired) ==
    {c \in {"timer"} : timerFired}

\* lines 153-157: the cases of the select that can proceed
SelectReady(ctxDone, timerFired) ==
    {c \in {"ctx", "timer"} : \/ c = "ctx" /\ ctxDone
                              \/ c = "timer" /\ timerFired}

\* lines 183-191: what sendNotificationAttempt does before the request
preSendError(n) ==
    LET payload == Marshal(n)
    IN  IF Len(payload) > config.MaxPayloadSize
        THEN payloadTooLarge(Len(payload), config.MaxPayloadSize)
        ELSE Nil

\* lines 202-219: what sendNotificationAttempt returns for an outcome of
\* client.Do
attemptError(o) ==
    IF o.kind = "response"
    THEN IF o.status >= MinErrorStatus THEN statusError(o.status, o.body) ELSE Nil
    ELSE requestError(config.URL, o.cause)

\* a wait that doubles with each attempt
backoffDelay_Exponential(a) == config.RetryDelay * 2 ^ a

\* line 156: the wait before attempt a, RetryDelay * time.Duration(attempt)
backoffDelay(a) == config.RetryDelay * a

\* lines 161-173 and 178: attempt a returned err
Fail(a, err) ==
    /\ lastErr' = err
    /\ reqLeft' = 0
    /\ UNCHANGED invocations
    /\ IF dontRetry(err)
       THEN /\ pc' = "done"
            /\ result' = err
            /\ attempt' = a
            /\ timer' = 0
       ELSE IF LoopContinues(a + 1)
       THEN /\ pc' = "backoff"
            /\ attempt' = a + 1
            /\ timer' = backoffDelay(a + 1)
            /\ UNCHANGED result
       ELSE /\ pc' = "done"
            /\ result' = aggregateError(config.RetryAttempts + 1, err)
            /\ attempt' = a + 1
            /\ timer' = 0

\* line 161 up to client.Do: attempt a of notification n starts
BeginAttempt(n, a) ==
    LET err == preSendError(n)
    IN  IF err # Nil
        THEN Fail(a, err)
        ELSE /\ pc' = "attempt"
             /\ attempt' = a
             /\ invocations' = invocations + 1
             /\ reqLeft' = config.Timeout
             /\ timer' = 0
             /\ UNCHANGED <<lastErr, result>>

\* lines 133-161: validation, defaults, and the first attempt
Send(n) ==
    LET verr == Validate(n)
    IN  IF verr # Nil
        THEN /\ pc' = "done"
             /\ result' = invalidNotification(verr)
             /\ notification' = n
             /\ UNCHANGED <<attempt, timer, reqLeft, invocations, lastErr, obs>>
        ELSE /\ notification' = Stamp(n)
             /\ BeginAttempt(Stamp(n), 0)
             /\ obs' = [obs EXCEPT !.lastKind =
                            IF preSendError(Stamp(n)) # Nil THEN "local" ELSE @]

SendNotificationWithContext(c, n) ==
    /\ pc = "idle"
    /\ entry' = "SendNotificationWithContext"
    /\ ctx' = c
    /\ Send(n)
    /\ UNCHANGED <<config, health, rateVars, keyVars, policyVars, serviceVars, timeoutVars>>

\* lines 126-130: the context is context.WithTimeout(Background, Timeout)
SendNotification(n) ==
    /\ pc = "idle"
    /\ entry' = "SendNotification"
    /\ ctx' = [left |-> config.Timeout, err |-> "none", cancellable |-> FALSE]
    /\ Send(n)
    /\ UNCHANGED <<config, health, rateVars, keyVars, policyVars, serviceVars, timeoutVars>>

\* what client.Do can return for the request in flight
Outcomes ==
    [kind : {"response"}, status : Statuses, body : Bodies, cause : {""}]
    \cup [kind : {"transport"}, status : {0}, body : {""}, cause : TransportCauses]
    \cup (IF ctx.err # "none"
          THEN {[kind |-> "ctx", status |-> 0, body |-> "", cause |-> ctxErrText(ctx)]}
          ELSE {})
    \cup (IF reqLeft = 0
          THEN {[kind |-> "timeout", status |-> 0, body |-> "", cause |-> clientTimeoutText]}
          ELSE {})

failureKind(o) ==
    IF o.kind # "response" THEN o.kind
    ELSE IF o.status >= 500 THEN "5xx" ELSE "4xx"

\* lines 202-219 and the loop's handling of the result
AttemptEnd(o) ==
    /\ pc = "attempt"
    /\ o \in Outcomes
    /\ LET err == attemptError(o)
       IN  IF err = Nil
           THEN /\ pc' = "done"
                /\ result' = Nil
                /\ reqLeft' = 0
                /\ obs' = [obs EXCEPT !.other = @ \/ o.status # 200]
                /\ UNCHANGED <<attempt, timer, invocations, lastErr>>
           ELSE /\ Fail(attempt, err)
                /\ obs' = [obs EXCEPT
                       !.n500 = IF o.kind = "response" /\ o.status = 500 THEN @ + 1 ELSE @,
                       !.other = @ \/ ~(o.kind = "response" /\ o.status = 500),
                       !.lastKind = failureKind(o),
                       !.lastStatus = o.status,
                       !.ctxDoneAtFail = (ctx.err # "none")]
    /\ UNCHANGED <<config, entry, notification, ctx, health, rateVars, keyVars, policyVars, serviceVars, timeoutVars>>

\* lines 151-159: the select of the backoff wait takes case c
BackoffStep(c) ==
    /\ pc = "backoff"
    /\ c \in SelectReady(ctx.err # "none", timer = 0)
    /\ IF c = "ctx"
       THEN /\ pc' = "done"
            /\ result' = ctxErrText(ctx)
            /\ obs' = [obs EXCEPT !.backoffCancel = @ \/ timer > 0]
            /\ UNCHANGED <<attempt, timer, reqLeft, invocations, lastErr>>
       ELSE /\ BeginAttempt(notification, attempt)
            /\ obs' = [obs EXCEPT !.lateStart = @ \/ obs.ctxDoneAtFail]
    /\ UNCHANGED <<config, entry, notification, ctx, health, rateVars, keyVars, policyVars, serviceVars, timeoutVars>>

\* Send is suspended: in client.Do, or in the select with no case ready
Suspended ==
    \/ pc = "attempt" /\ reqLeft > 0 /\ ctx.err = "none"
    \/ pc = "backoff" /\ SelectReady(ctx.err # "none", timer = 0) = {}

\* one unit of time passes while Send is suspended
Tick ==
    /\ Suspended
    /\ timer' = IF timer > 0 THEN timer - 1 ELSE timer
    /\ reqLeft' = IF reqLeft > 0 THEN reqLeft - 1 ELSE reqLeft
    /\ ctx' = IF ctx.left > 0
              THEN [ctx EXCEPT !.left = @ - 1,
                               !.err = IF ctx.left = 1 THEN "deadline" ELSE @]
              ELSE ctx
    /\ obs' = [obs EXCEPT !.waited = IF pc = "backoff" THEN @ + 1 ELSE @]
    /\ UNCHANGED <<config, pc, entry, notification, attempt, invocations,
                   lastErr, result, health, rateVars, keyVars, policyVars, serviceVars, timeoutVars>>

\* the caller cancels the context it passed
Cancel ==
    /\ pc \in {"attempt", "backoff"}
    /\ ctx.cancellable
    /\ ctx.err = "none"
    /\ ctx' = [ctx EXCEPT !.err = "canceled"]
    /\ UNCHANGED <<config, pc, entry, notification, attempt, timer, reqLeft,
                   invocations, lastErr, result, obs, health, rateVars, keyVars, policyVars, serviceVars, timeoutVars>>

\* the two requests whose keys are compared
Peers == {"first", "second"}

NoPeer ==
    [pc |-> "none", RemoteAddr |-> "", XForwardedFor |-> "", XRealIP |-> "",
     client_ip |-> "", clientIP |-> ""]

\* the computers of the policy: one more than the threshold, so that an
\* employee can hold fewer computers than the threshold, as many, and more
MaxComputers == MaxComputersThreshold + 1

Computers == 1..MaxComputers

\* the MAC address of computer i
MACOf(i) == "AA:BB:CC:DD:EE:0" \o Itoa(i)

\* the errors of the repository
ErrComputerNotFound == "computer not found"

ErrDuplicateMAC == "computer with this MAC address already exists"

ErrInvalidMACFormat == "invalid MAC address format"

\* context.DeadlineExceeded
DeadlineExceededError == "context deadline exceeded"

Employees == {"ABC"}

\* the value of a computer the registry does not hold
Absent == "<absent>"

NoTask ==
    [cpc |-> "none", cemp |-> "", commit |-> 0, count |-> -1, fresh |-> FALSE,
     reads |-> 0, failed |-> "none", hpc |-> "none", op |-> "none"]

NoMark == [crossed |-> FALSE, disturbed |-> FALSE, notified |-> FALSE]

NoEvent ==
    [kind |-> "none", op |-> "none", outcome |-> "none", affected |-> "",
     started |-> FALSE, cemp |-> "", reads |-> 0, count |-> -1,
     fresh |-> FALSE, sent |-> <<>>, failed |-> "none", check |-> "none",
     status |-> 0, message |-> ""]

\* the IsHealthy call before it is made
NoProbe == [pc |-> "idle", probes |-> 0, kind |-> "none", status |-> 0, result |-> FALSE]

\* the Send call and the IsHealthy call before they are made
SendIdle ==
    /\ health = NoProbe
    /\ pc = "idle"
    /\ entry = "none"
    /\ notification = mk("", "", "")
    /\ ctx = [left |-> -1, err |-> "none", cancellable |-> FALSE]
    /\ attempt = 0
    /\ timer = 0
    /\ reqLeft = 0
    /\ invocations = 0
    /\ lastErr = Nil
    /\ result = "pending"
    /\ obs = [n500 |-> 0, other |-> FALSE, lastKind |-> "none", lastStatus |-> 0,
              ctxDoneAtFail |-> FALSE, lateStart |-> FALSE, backoffCancel |-> FALSE,
              waited |-> 0]

\* NewSecurityMiddleware: no client seen, the mutex free
RateIdle ==
    /\ clients = [k \in Keys |-> 0]
    /\ limiters = <<>>
    /\ mu = 0
    /\ reqs = [r \in 1..MaxRequests |-> [pc |-> "idle", key |-> "", lim |-> 0]]
    /\ now = 0
    /\ stats = [k \in Keys |-> [first |-> -1, admitted |-> 0, denied |-> 0]]
    /\ resp = [r \in 1..MaxRequests |-> [decision |-> "none", status |-> 0, served |-> 0]]

\* no request has reached the middleware
KeyIdle == peers = [p \in Peers |-> NoPeer]

\* no handler has run; the registry is empty
PolicyIdle ==
    /\ registry = [c \in Computers |-> Absent]
    /\ commits = 0
    /\ tasks = [t \in 1..MaxTasks |-> NoTask]
    /\ marks = [e \in Employees |-> NoMark]
    /\ last = NoEvent

\* the rows of the computers table as the service sees it: room for the
\* computers it starts with and one more for every call
ServiceComputers == 1..(MaxComputersPerEmployee - 1 + MaxCalls)

\* a row of the table that holds no computer
NoRow == [mac |-> "", emp |-> Absent]

\* a context: what it is derived from, and its timeout in seconds (NoTimeout:
\* it has no deadline of its own)
NoTimeout == -1

NoContext == [parent |-> "none", timeout |-> NoTimeout]

\* context.Background()
Background == [parent |-> "background", timeout |-> NoTimeout]

\* context.WithTimeout(parent, timeout)
WithTimeout(parent, timeout) == [parent |-> parent, timeout |-> timeout]

\* ResponseHelper.CreateRequestContext(r, timeout): the context of r, which
\* for the empty request &http.Request{} is context.Background()
CreateRequestContext(r, timeout) ==
    WithTimeout(IF r = "empty" THEN "background" ELSE "request", timeout)

\* line 264 of ComputerHandler.checkAndNotify: the context of the check
checkContext == CreateRequestContext("empty", NotificationTimeout)

\* line 319 of ComputerService.checkAndNotifyThreshold: ctx := context.Background()
thresholdContext == Background

\* whether context c is done when the request's context is done or not: a
\* context derived from the request's is done with it
Done(c, requestDone) == c.parent = "request" /\ requestDone

NoCall ==
    [pc |-> "none", id |-> 0, mac |-> "", emp |-> "", old |-> "", bad |-> FALSE,
     requestDone |-> FALSE, seen |-> -1, result |-> "pending",
     ctx |-> NoContext, sent |-> 0]

\* no CreateComputer call has been made; the service's registry is empty
ServiceIdle ==
    /\ store = [c \in ServiceComputers |-> NoRow]
    /\ calls = [c \in 1..MaxCalls |-> NoCall]

\* a request RequestTimeout has not been called with: the middleware's
\* position, the handler goroutine's, ctx.Err(), the length of the done
\* channel, the function that sends the handler's response, and the calls
\* of WriteHeader and Write made on the response writer, in order
NoTimed ==
    [pc |-> "none", hpc |-> "none", err |-> "none", done |-> 0,
     sender |-> "none", writes |-> <<>>]

\* no request has reached RequestTimeout
TimeoutIdle == timed = [r \in 1..MaxTimed |-> NoTimed]

Init ==
    /\ config \in Configs
    /\ SendIdle
    /\ secConfig = [RateLimitRPS |-> 1, RateLimitBurst |-> 1,
                    TrustedProxies |-> <<"10.0.0.1">>]
    /\ RateIdle
    /\ KeyIdle
    /\ ServiceIdle
    /\ TimeoutIdle
    /\ PolicyIdle

Next ==
    \/ \E n \in Notifications : SendNotification(n)
    \/ \E c \in Contexts, n \in Notifications : SendNotificationWithContext(c, n)
    \/ \E o \in Outcomes : AttemptEnd(o)
    \/ \E c \in {"ctx", "timer"} : BackoffStep(c)
    \/ Tick
    \/ Cancel

Spec == Init /\ [][Next]_vars

\* a status that counts as healthy only below the client errors
healthy_Below400(o) == o.kind = "response" /\ o.status < MinErrorStatus

\* lines 236-242 of IsHealthy: false for an error of client.Do, and
\* resp.StatusCode < 500 for a response
healthy(o) == o.kind = "response" /\ o.status < UnhealthyStatus

\* the statuses the probed endpoint answers with
ProbeStatuses == {200, 404, 499, 500, 503}

\* what client.Do can return for the probe: a response, or an error (the
\* transport failed, the client's Timeout ran out, or the context was done)
ProbeOutcomes ==
    [kind : {"response"}, status : ProbeStatuses]
    \cup [kind : {"error"}, status : {0}]

\* lines 225-236 of IsHealthy: the GET request for URL + "/health" is built
\* and handed to client.Do
HealthBegin ==
    /\ health.pc = "idle"
    /\ health' = [health EXCEPT !.pc = "probing", !.probes = @ + 1]
    /\ UNCHANGED <<config, pc, entry, notification, ctx, attempt, timer, reqLeft,
                   invocations, lastErr, result, obs>>
    /\ UNCHANGED <<rateVars, keyVars, policyVars, serviceVars, timeoutVars>>

\* lines 236-242 of IsHealthy: client.Do returned o
HealthEnd(o) ==
    /\ health.pc = "probing"
    /\ health' = [health EXCEPT !.pc = "done", !.kind = o.kind, !.status = o.status,
                                !.result = healthy(o)]
    /\ UNCHANGED <<config, pc, entry, notification, ctx, attempt, timer, reqLeft,
                   invocations, lastErr, result, obs>>
    /\ UNCHANGED <<rateVars, keyVars, policyVars, serviceVars, timeoutVars>>

\* the configurations under which IsHealthy is run beside Send
HealthConfigs ==
    [URL : URLs, Timeout : {1}, RetryAttempts : {1}, RetryDelay : {1},
     MaxPayloadSize : MaxPayloadSizes]

HealthInit ==
    /\ config \in HealthConfigs
    /\ SendIdle
    /\ secConfig = [RateLimitRPS |-> 1, RateLimitBurst |-> 1,
                    TrustedProxies |-> <<"10.0.0.1">>]
    /\ RateIdle
    /\ KeyIdle
    /\ ServiceIdle
    /\ TimeoutIdle
    /\ PolicyIdle

HealthNext ==
    \/ Next
    \/ HealthBegin
    \/ \E o \in ProbeOutcomes : HealthEnd(o)

\* Send and IsHealthy called on one client, in any interleaving
HealthSpec == HealthInit /\ [][HealthNext]_vars

\* an attempt in flight returns, a ready select proceeds, and time passes
FairSpec ==
    /\ Spec
    /\ WF_vars(\E o \in Outcomes : AttemptEnd(o))
    /\ WF_vars(\E c \in {"ctx", "timer"} : BackoffStep(c))
    /\ WF_vars(Tick)

---------------------------------------------------------------------------
(* The rate limiter: SecurityMiddleware.RateLimit over rate.Limiter.        *)
(* Tokens are counted in units of 1/TicksPerSecond of a token, so that the  *)
(* refill of RateLimitRPS tokens per second is RateLimitRPS units per tick. *)

Min(a, b) == IF a < b THEN a ELSE b

\* the zero time.Time a new limiter carries as its last update
ZeroTime == -1

\* rate.NewLimiter(limit, burst): no tokens, last update at the zero time
NewLimiter == [tokens |-> 0, last |-> ZeroTime]

\* a limiter created with its two arguments exchanged: the burst as the rate
limiterRate_Burst == secConfig.RateLimitBurst

\* line 38: the first argument of rate.NewLimiter, rate.Limit(RateLimitRPS)
limiterRate == secConfig.RateLimitRPS

\* a limiter created with its two arguments exchanged: the rate as the burst
limiterBurst_Rate == secConfig.RateLimitRPS

\* line 38: the second argument of rate.NewLimiter, RateLimitBurst
limiterBurst == secConfig.RateLimitBurst

\* rate.Limiter.advance: the tokens of limiter l at time t, capped at the
\* burst; from the zero time the elapsed time fills any bucket
advance(l, t) ==
    IF l.last = ZeroTime
    THEN limiterBurst * TicksPerSecond
    ELSE Min(limiterBurst * TicksPerSecond,
             l.tokens + limiterRate * (t - l.last))

\* rate.Limiter.Allow at time t: whether one token is there
allowed(l, t) == advance(l, t) - TicksPerSecond >= 0

\* rate.Limiter.Allow at time t: the limiter afterwards
afterAllow(l, t) ==
    IF allowed(l, t)
    THEN [tokens |-> advance(l, t) - TicksPerSecond, last |-> t]
    ELSE l

\* a lookup that never finds the client
lookup_AlwaysNew(k) == 0

\* line 36: limiter, exists := sm.clients[clientIP] (0: not there)
lookup(k) == clients[k]

\* a request that goes on to the map without waiting for the mutex
Lock_NoMutex(r, k) ==
    /\ reqs[r].pc = "idle"
    /\ \A q \in 1..(r - 1) : reqs[q].pc # "idle"
    /\ mu' = r
    /\ reqs' = [reqs EXCEPT ![r] = [pc |-> "locked", key |-> k, lim |-> 0]]
    /\ UNCHANGED <<secConfig, clients, limiters, now, stats, resp>>
    /\ UNCHANGED <<sendVars, keyVars, policyVars, serviceVars, timeoutVars>>

\* lines 33-35: the request of client k takes the mutex
Lock(r, k) ==
    /\ reqs[r].pc = "idle"
    /\ \A q \in 1..(r - 1) : reqs[q].pc # "idle"
    /\ mu = 0
    /\ mu' = r
    /\ reqs' = [reqs EXCEPT ![r] = [pc |-> "locked", key |-> k, lim |-> 0]]
    /\ UNCHANGED <<secConfig, clients, limiters, now, stats, resp>>
    /\ UNCHANGED <<sendVars, keyVars, policyVars, serviceVars, timeoutVars>>

\* line 36: the lookup in the map, under the mutex
Lookup(r) ==
    /\ reqs[r].pc = "locked"
    /\ reqs' = [reqs EXCEPT ![r].pc = "looked", ![r].lim = lookup(reqs[r].key)]
    /\ UNCHANGED <<secConfig, clients, limiters, mu, now, stats, resp>>
    /\ UNCHANGED <<sendVars, keyVars, policyVars, serviceVars, timeoutVars>>

\* an unlock deferred to the return of the middleware function: the mutex
\* stays with the request while it goes on
InsertUnlock_Deferred(r) ==
    /\ reqs[r].pc = "looked"
    /\ LET k == reqs[r].key
       IN  IF reqs[r].lim # 0
           THEN /\ reqs' = [reqs EXCEPT ![r].pc = "allow"]
                /\ UNCHANGED <<clients, limiters>>
           ELSE /\ limiters' = Append(limiters, NewLimiter)
                /\ clients' = [clients EXCEPT ![k] = Len(limiters) + 1]
                /\ reqs' = [reqs EXCEPT ![r].pc = "allow", ![r].lim = Len(limiters) + 1]
    /\ mu' = mu
    /\ UNCHANGED <<secConfig, now, stats, resp, sendVars, keyVars, policyVars, serviceVars, timeoutVars>>

\* lines 37-41: create and insert the limiter when the lookup missed, unlock
InsertUnlock(r) ==
    /\ reqs[r].pc = "looked"
    /\ LET k == reqs[r].key
       IN  IF reqs[r].lim # 0
           THEN /\ reqs' = [reqs EXCEPT ![r].pc = "allow"]
                /\ UNCHANGED <<clients, limiters>>
           ELSE /\ limiters' = Append(limiters, NewLimiter)
                /\ clients' = [clients EXCEPT ![k] = Len(limiters) + 1]
                /\ reqs' = [reqs EXCEPT ![r].pc = "allow", ![r].lim = Len(limiters) + 1]
    /\ mu' = 0
    /\ UNCHANGED <<secConfig, now, stats, resp, sendVars, keyVars, policyVars, serviceVars, timeoutVars>>

\* a check that admits without taking the token
Allow_NoConsume(r) ==
    /\ reqs[r].pc = "allow"
    /\ LET i == reqs[r].lim
           k == reqs[r].key
           ok == allowed(limiters[i], now)
       IN  /\ reqs' = [reqs EXCEPT ![r].pc = IF ok THEN "next" ELSE "reject"]
           /\ stats' = [stats EXCEPT
                  ![k].first = IF @ = -1 THEN now ELSE @,
                  ![k].admitted = IF ok THEN @ + 1 ELSE @,
                  ![k].denied = IF ok THEN @ ELSE @ + 1]
           /\ resp' = [resp EXCEPT ![r].decision = IF ok THEN "admitted" ELSE "denied"]
    /\ UNCHANGED <<secConfig, clients, limiters, mu, now, sendVars, keyVars, policyVars, serviceVars, timeoutVars>>

\* line 43: limiter.Allow()
Allow(r) ==
    /\ reqs[r].pc = "allow"
    /\ LET i == reqs[r].lim
           k == reqs[r].key
           ok == allowed(limiters[i], now)
       IN  /\ limiters' = [limiters EXCEPT ![i] = afterAllow(@, now)]
           /\ reqs' = [reqs EXCEPT ![r].pc = IF ok THEN "next" ELSE "reject"]
           /\ stats' = [stats EXCEPT
                  ![k].first = IF @ = -1 THEN now ELSE @,
                  ![k].admitted = IF ok THEN @ + 1 ELSE @,
                  ![k].denied = IF ok THEN @ ELSE @ + 1]
           /\ resp' = [resp EXCEPT ![r].decision = IF ok THEN "admitted" ELSE "denied"]
    /\ UNCHANGED <<secConfig, clients, mu, now, sendVars, keyVars, policyVars, serviceVars, timeoutVars>>

\* a rejection that falls through to the next handler
Reject_FallThrough(r) ==
    /\ reqs[r].pc = "reject"
    /\ reqs' = [reqs EXCEPT ![r] = [pc |-> "done", key |-> "", lim |-> 0]]
    /\ resp' = [resp EXCEPT ![r].status = StatusTooManyRequests, ![r].served = @ + 1]
    /\ UNCHANGED <<secConfig, clients, limiters, mu, now, stats>>
    /\ UNCHANGED <<sendVars, keyVars, policyVars, serviceVars, timeoutVars>>

\* lines 44-45: http.Error(w, "Rate limit exceeded", 429) and return
Reject(r) ==
    /\ reqs[r].pc = "reject"
    /\ reqs' = [reqs EXCEPT ![r] = [pc |-> "done", key |-> "", lim |-> 0]]
    /\ resp' = [resp EXCEPT ![r].status = StatusTooManyRequests]
    /\ UNCHANGED <<secConfig, clients, limiters, mu, now, stats>>
    /\ UNCHANGED <<sendVars, keyVars, policyVars, serviceVars, timeoutVars>>

\* line 48: next.ServeHTTP(w, r)
Serve(r) ==
    /\ reqs[r].pc = "next"
    /\ reqs' = [reqs EXCEPT ![r] = [pc |-> "done", key |-> "", lim |-> 0]]
    /\ resp' = [resp EXCEPT ![r].served = @ + 1]
    /\ UNCHANGED <<secConfig, clients, limiters, mu, now, stats>>
    /\ UNCHANGED <<sendVars, keyVars, policyVars, serviceVars, timeoutVars>>

\* one tick of time passes
RateTick ==
    /\ now < MaxNow
    /\ now' = now + 1
    /\ UNCHANGED <<secConfig, clients, limiters, mu, reqs, stats, resp>>
    /\ UNCHANGED <<sendVars, keyVars, policyVars, serviceVars, timeoutVars>>

RateInit ==
    /\ secConfig \in SecurityConfigs
    /\ RateIdle
    /\ config = [URL |-> "http://notifier:8080/api/notify", Timeout |-> 1,
                 RetryAttempts |-> 0, RetryDelay |-> 0, MaxPayloadSize |-> 1024]
    /\ SendIdle
    /\ KeyIdle
    /\ ServiceIdle
    /\ TimeoutIdle
    /\ PolicyIdle

RateNext ==
    \/ \E r \in 1..MaxRequests, k \in Keys : Lock(r, k)
    \/ \E r \in 1..MaxRequests : Lookup(r)
    \/ \E r \in 1..MaxRequests : InsertUnlock(r)
    \/ \E r \in 1..MaxRequests : Allow(r)
    \/ \E r \in 1..MaxRequests : Reject(r)
    \/ \E r \in 1..MaxRequests : Serve(r)
    \/ RateTick

RateSpec == RateInit /\ [][RateNext]_vars

---------------------------------------------------------------------------
(* The client key: getClientIP and isTrustedProxy, as the TrustedProxy and  *)
(* RateLimit middleware call them for each request.                         *)

\* the characters strings.TrimSpace removes (those the inputs hold)
IsSpace(c) == c \in {" ", "\t"}

\* strings.LastIndex(s, c) for a one-character c: 0-based, -1 when absent
LastIndex(s, c) ==
    LET at == {i \in 1..Len(s) : SubSeq(s, i, i) = c}
    IN  IF at = {} THEN -1
        ELSE (CHOOSE i \in at : \A j \in at : j <= i) - 1

\* strings.Split(s, sep)[0] for a one-character sep
SplitFirst(s, sep) ==
    LET at == {i \in 1..Len(s) : SubSeq(s, i, i) = sep}
    IN  IF at = {} THEN s
        ELSE SubSeq(s, 1, (CHOOSE i \in at : \A j \in at : i <= j) - 1)

RECURSIVE TrimLeft(_)
TrimLeft(s) ==
    IF s # "" /\ IsSpace(SubSeq(s, 1, 1)) THEN TrimLeft(SubSeq(s, 2, Len(s))) ELSE s

RECURSIVE TrimRight(_)
TrimRight(s) ==
    IF s # "" /\ IsSpace(SubSeq(s, Len(s), Len(s)))
    THEN TrimRight(SubSeq(s, 1, Len(s) - 1))
    ELSE s

\* strings.TrimSpace(s)
TrimSpace(s) == TrimRight(TrimLeft(s))

\* a proxy check that trusts every peer
isTrustedProxy_Always(ip) == TRUE

\* lines 167-174
isTrustedProxy(ip) ==
    \E i \in 1..Len(secConfig.TrustedProxies) : secConfig.TrustedProxies[i] = ip

\* lines 141-144: the remote address up to its last colon
stripPort(remoteAddr) ==
    LET colonIndex == LastIndex(remoteAddr, ":")
    IN  IF colonIndex # -1 THEN SubSeq(remoteAddr, 1, colonIndex) ELSE remoteAddr

\* lines 139-164; a header that is absent reads as ""
getClientIP(r) ==
    LET remoteAddr == stripPort(r.RemoteAddr)
    IN  IF isTrustedProxy(remoteAddr) /\ r.XForwardedFor # ""
        THEN TrimSpace(SplitFirst(r.XForwardedFor, ","))
        ELSE IF isTrustedProxy(remoteAddr) /\ r.XRealIP # ""
        THEN TrimSpace(r.XRealIP)
        ELSE remoteAddr

\* r.RemoteAddr as net/http sets it: host:port
RemoteAddrs == {"10.0.0.1:5555", "192.168.1.9:40000", "[::1]:8080"}

XForwardedFors ==
    {"", "198.51.100.7", "203.0.113.5 , 10.0.0.1", ",203.0.113.5", " "}

XRealIPs == {"", "198.51.100.7 ", "\t"}

HTTPRequests ==
    [RemoteAddr : RemoteAddrs, XForwardedFor : XForwardedFors, XRealIP : XRealIPs]

\* lines 113-122: the request arrives at the TrustedProxy middleware, which
\* stores the resolved address in the request context
TrustedProxy(p, r) ==
    /\ peers[p].pc = "none"
    /\ p = "second" => peers["first"].pc = "keyed"
    /\ peers' = [peers EXCEPT ![p] =
                    [pc |-> "proxied", RemoteAddr |-> r.RemoteAddr,
                     XForwardedFor |-> r.XForwardedFor, XRealIP |-> r.XRealIP,
                     client_ip |-> getClientIP(r), clientIP |-> ""]]
    /\ UNCHANGED <<sendVars, rateVars, policyVars, serviceVars, timeoutVars>>

\* line 33: RateLimit resolves the key of the request
RateLimitKey(p) ==
    /\ peers[p].pc = "proxied"
    /\ peers' = [peers EXCEPT ![p].pc = "keyed",
                              ![p].clientIP = getClientIP(peers[p])]
    /\ UNCHANGED <<sendVars, rateVars, policyVars, serviceVars, timeoutVars>>

KeyNext ==
    \/ \E p \in Peers, r \in HTTPRequests : TrustedProxy(p, r)
    \/ \E p \in Peers : RateLimitKey(p)

---------------------------------------------------------------------------
(* The Threshold Policy: the handlers that mutate the Asset Registry and    *)
(* the checkAndNotify goroutines they start.  A handler's work up to the    *)
(* registry call and the go statement is one step: the registry call is its *)
(* only access to shared state.  The goroutine reads the registry in one    *)
(* step and calls the Notifier in another.                                  *)

\* len(computers) of GetComputersByEmployee(employee) on registry reg
Count(reg, employee) == Cardinality({c \in Computers : reg[c] = employee})

Alphanumeric == "abcdefghijklmnopqrstuvwxyzABCDEFGHIJKLMNOPQRSTUVWXYZ0123456789"

\* validation.ValidateEmployeeAbbreviation
ValidateEmployeeAbbreviation(abbrev) ==
    IF abbrev = "" THEN Nil
    ELSE IF Len(abbrev) # EmployeeAbbrevExactLength
        THEN "employee abbreviation must be exactly 3 characters long"
    ELSE IF \E i \in 1..Len(abbrev) : ~Contains(Alphanumeric, SubSeq(abbrev, i, i))
        THEN "employee abbreviation can only contain alphanumeric characters"
    ELSE Nil

\* a check that reads the registry for every employee code
skipsCheck_Never(employeeAbbreviation) == FALSE

\* lines 260-262 of checkAndNotify
skipsCheck(employeeAbbreviation) == employeeAbbreviation = ""

\* a threshold that must be passed, not reached
exceeds_Strict(count) == count > MaxComputersThreshold

\* line 273 of checkAndNotify
exceeds(count) == count >= MaxComputersThreshold

\* a notification that leaves the count out
thresholdNotification_NoCount(employeeAbbreviation, count) ==
    [Level |-> "warning",
     EmployeeAbbreviation |-> employeeAbbreviation,
     Message |-> "Employee " \o employeeAbbreviation
                 \o " has too many computers assigned (threshold: "
                 \o Itoa(MaxComputersThreshold) \o ")",
     Timestamp |-> "",
     Source |-> "",
     Metadata |-> <<<<"threshold", Itoa(MaxComputersThreshold)>>>>]

\* lines 274-282 of checkAndNotify
thresholdNotification(employeeAbbreviation, count) ==
    [Level |-> "warning",
     EmployeeAbbreviation |-> employeeAbbreviation,
     Message |-> "Employee " \o employeeAbbreviation \o " has " \o Itoa(count)
                 \o " computers assigned (threshold: "
                 \o Itoa(MaxComputersThreshold) \o ")",
     Timestamp |-> "",
     Source |-> "",
     Metadata |-> <<<<"computer_count", Itoa(count)>>,
                    <<"threshold", Itoa(MaxComputersThreshold)>>>>]

\* a handler that starts the check whatever the registry answered
startsCheck_Always(err) == TRUE

\* lines 94-100, 185-191, 358-368: the go statement is reached only when the
\* registry call returned no error
startsCheck(err) == err = Nil

\* the handlers that hold a go h.checkAndNotify statement
checkingOps == {"create", "update", "assign"}

\* the computers the requests name: the last two, whose assignment takes
\* an employee who holds the others from below the threshold to it and
\* above it; the others stay as the registry starts with them
Targets == {c \in Computers : c >= MaxComputersThreshold}

\* the requests the handlers receive: the operation, the computer, the
\* employee code of the body or the path, whether the rest of the input is
\* well formed, and whether the database answers
HandlerRequests ==
    [op : {"create", "update"}, id : Targets, emp : Employees \cup {"", "AB"},
     wellFormed : BOOLEAN, dbOK : BOOLEAN]
    \cup [op : {"assign", "remove"}, id : Targets, emp : Employees \cup {"AB"},
          wellFormed : BOOLEAN, dbOK : BOOLEAN]
    \cup [op : {"delete"}, id : Targets, emp : {""},
          wellFormed : BOOLEAN, dbOK : BOOLEAN]

\* what the handler finds wrong with the request before it calls the registry
rejection(q) ==
    IF ~q.wellFormed THEN "invalid request"
    ELSE IF q.op = "delete" THEN Nil
    ELSE ValidateEmployeeAbbreviation(q.emp)

\* what the error texts of the repository call the operations
repoOperation(op) ==
    IF op = "create" THEN "create computer"
    ELSE IF op = "update" THEN "update computer"
    ELSE IF op = "delete" THEN "delete computer"
    ELSE IF op = "assign" THEN "assign computer to employee"
    ELSE "remove computer from employee"

\* the error of the driver when the database does not answer
DriverError == "sql: database is closed"

\* the error of the registry call of request q on registry reg:
\* CreateComputer wraps ErrDuplicateMAC with the MAC address when the row
\* exists, UpdateComputer and DeleteComputer return ErrComputerNotFound when
\* no row was affected, AssignComputerToEmployee and
\* RemoveComputerFromEmployee return errors of their own, and an error of
\* the driver is wrapped with the operation
repoError(reg, q) ==
    IF ~q.dbOK THEN "failed to " \o repoOperation(q.op) \o ": " \o DriverError
    ELSE IF q.op = "create"
        THEN IF reg[q.id] # Absent THEN ErrDuplicateMAC \o ": " \o MACOf(q.id) ELSE Nil
    ELSE IF q.op = "remove"
        THEN IF reg[q.id] # q.emp
             THEN "computer not found or not assigned to employee " \o q.emp
             ELSE Nil
    ELSE IF q.op = "assign"
        THEN IF reg[q.id] = Absent
             THEN "computer with ID " \o Itoa(q.id) \o " not found"
             ELSE Nil
    ELSE IF reg[q.id] = Absent THEN ErrComputerNotFound
    ELSE Nil

\* errors.Is(err, target) on the text of err: err is target, or wraps it
\* with %w before or after its own text
errorsIs(err, target) ==
    \/ err = target
    \/ /\ Len(err) > Len(target) + 2
       /\ \/ SubSeq(err, 1, Len(target) + 2) = target \o ": "
          \/ SubSeq(err, Len(err) - Len(target) - 1, Len(err)) = ": " \o target

\* ErrorHandler.HandleRepositoryError: the status of the answer to err
HandleRepositoryError(err) ==
    IF errorsIs(err, ErrComputerNotFound) THEN StatusNotFound
    ELSE IF errorsIs(err, ErrDuplicateMAC) THEN StatusConflict
    ELSE IF errorsIs(err, ErrInvalidMACFormat) THEN StatusBadRequest
    ELSE IF errorsIs(err, DeadlineExceededError) THEN StatusRequestTimeout
    ELSE StatusInternalServerError

\* the status of the handler's answer to the error err of the registry call
\* of request q: the remove and assign handlers compare the text of the
\* error with that of a missing computer, the others and all other errors
\* go to HandleRepositoryError
errorStatus(q, err) ==
    IF q.op = "remove" /\ err = "computer not found or not assigned to employee " \o q.emp
        THEN StatusNotFound
    ELSE IF q.op = "assign" /\ err = "computer with ID " \o Itoa(q.id) \o " not found"
        THEN StatusNotFound
    ELSE HandleRepositoryError(err)

\* the registry after the call of request q succeeded
mutate(reg, q) ==
    [reg EXCEPT ![q.id] = IF q.op = "delete" THEN Absent
                          ELSE IF q.op = "remove" THEN ""
                          ELSE q.emp]

\* the marks after the registry went from reg to next: a count that
\* reaches the threshold from below opens a new watch on the employee, a
\* count that falls disturbs it
marked(reg, next) ==
    [e \in Employees |->
        IF Count(reg, e) < MaxComputersThreshold /\ Count(next, e) >= MaxComputersThreshold
        THEN [crossed |-> TRUE, disturbed |-> FALSE, notified |-> FALSE]
        ELSE [marks[e] EXCEPT !.disturbed = @ \/ Count(next, e) < Count(reg, e)]]

\* the employee whose assignment request q changed, of the changes the
\* handlers are there for: a computer created for, updated to or assigned to
\* an employee, and a computer removed from one
affectedBy(reg, q) ==
    IF q.op \in {"create", "update", "assign"} /\ reg[q.id] # q.emp /\ q.emp \in Employees
        THEN q.emp
    ELSE IF q.op = "remove" THEN q.emp
    ELSE ""

\* CreateComputerHandler, UpdateComputerHandler, DeleteComputerHandler,
\* RemoveComputerFromEmployeeHandler, AssignComputerToEmployeeHandler:
\* validation, the registry call, and the go statement; a handler that
\* starts no check answers in the same step, an error with its status.  Requests are numbered in the
\* order of their registry calls; the handlers and the checks of earlier
\* requests run on beside the later handlers
Handle(t, q) ==
    /\ tasks[t].cpc = "none"
    /\ \A u \in 1..(t - 1) : tasks[u].cpc # "none"
    /\ LET verr == rejection(q)
           err == repoError(registry, q)
           next == mutate(registry, q)
           started == q.op \in checkingOps /\ startsCheck(err)
       IN  IF verr # Nil
           THEN /\ tasks' = [tasks EXCEPT ![t].cpc = "done", ![t].hpc = "done"]
                /\ last' = [NoEvent EXCEPT !.kind = "handled", !.op = q.op,
                                           !.outcome = "rejected",
                                           !.status = StatusBadRequest]
                /\ UNCHANGED <<registry, commits, marks>>
           ELSE /\ registry' = IF err = Nil THEN next ELSE registry
                /\ commits' = IF err = Nil THEN commits + 1 ELSE commits
                /\ marks' = IF err = Nil THEN marked(registry, next) ELSE marks
                /\ tasks' = [tasks EXCEPT ![t] =
                       IF started
                       THEN [NoTask EXCEPT
                               !.cpc = "start",
                               !.cemp = q.emp,
                               !.commit = IF err = Nil THEN commits + 1 ELSE 0,
                               !.hpc = "respond",
                               !.op = q.op]
                       ELSE [NoTask EXCEPT !.cpc = "done", !.hpc = "done"]]
                /\ last' = [NoEvent EXCEPT
                       !.kind = "handled",
                       !.op = q.op,
                       !.outcome = IF err = Nil THEN "ok" ELSE "failed",
                       !.status = IF err = Nil THEN 0 ELSE errorStatus(q, err),
                       !.affected = IF err = Nil THEN affectedBy(registry, q) ELSE "",
                       !.started = started,
                       !.cemp = IF started THEN q.emp ELSE ""]
    /\ UNCHANGED <<sendVars, rateVars, keyVars, serviceVars, timeoutVars>>

\* the record of a check that has ended: what the handler still has to do is
\* kept, and how the check ended is kept for as long as the handler has not
\* answered
ended(task, failure) ==
    [NoTask EXCEPT !.cpc = "done",
                   !.hpc = task.hpc,
                   !.op = task.op,
                   !.failed = IF task.hpc = "respond" THEN failure ELSE "none"]

\* a check that reads the registry again when the read failed
afterReadError_Retry(task) == [task EXCEPT !.reads = @ + 1]

\* lines 268-271 of checkAndNotify: the error is logged and the check returns
afterReadError(task) == ended(task, "read")

\* lines 259-273 of checkAndNotify: the empty code, the registry read under
\* its own timeout, and the comparison with the threshold
CheckRead(t, ok) ==
    /\ tasks[t].cpc = "start"
    /\ ok => ~Done(checkContext, tasks[t].hpc = "done")
    /\ LET e == tasks[t].cemp
           count == Count(registry, e)
           event == [NoEvent EXCEPT !.kind = "checked", !.cemp = e]
       IN  IF skipsCheck(e)
           THEN /\ tasks' = [tasks EXCEPT ![t] = ended(tasks[t], "none")]
                /\ last' = event
                /\ UNCHANGED marks
           ELSE IF ~ok
           THEN /\ tasks' = [tasks EXCEPT ![t] = afterReadError(tasks[t])]
                /\ last' = [event EXCEPT !.reads = tasks[t].reads + 1, !.failed = "read"]
                /\ marks' = IF e \in Employees
                            THEN [marks EXCEPT ![e].disturbed = TRUE]
                            ELSE marks
           ELSE IF exceeds(count)
           THEN /\ tasks' = [tasks EXCEPT
                       ![t].cpc = "dispatch",
                       ![t].count = count,
                       ![t].reads = @ + 1,
                       ![t].fresh = tasks[t].commit > 0 /\ commits >= tasks[t].commit]
                /\ UNCHANGED <<marks, last>>
           ELSE /\ tasks' = [tasks EXCEPT ![t] = ended(tasks[t], "none")]
                /\ last' = [event EXCEPT
                       !.reads = tasks[t].reads + 1,
                       !.count = count,
                       !.fresh = tasks[t].commit > 0 /\ commits >= tasks[t].commit]
                /\ UNCHANGED marks
    /\ UNCHANGED <<registry, commits, sendVars, rateVars, keyVars, serviceVars, timeoutVars>>

\* lines 274-288 of checkAndNotify: h.Notifier.SendNotification(notification);
\* its error is logged
CheckDispatch(t, ok) ==
    /\ tasks[t].cpc = "dispatch"
    /\ LET e == tasks[t].cemp
       IN  /\ tasks' = [tasks EXCEPT ![t] =
                           ended(tasks[t], IF ok THEN "none" ELSE "dispatch")]
           /\ last' = [NoEvent EXCEPT
                  !.kind = "checked",
                  !.cemp = e,
                  !.reads = tasks[t].reads,
                  !.count = tasks[t].count,
                  !.fresh = tasks[t].fresh,
                  !.failed = IF ok THEN "none" ELSE "dispatch",
                  !.sent = <<thresholdNotification(e, tasks[t].count)>>]
           /\ marks' = IF e \in Employees
                       THEN [marks EXCEPT ![e].notified = TRUE,
                                          ![e].disturbed = @ \/ ~ok]
                       ELSE marks
    /\ UNCHANGED <<registry, commits, sendVars, rateVars, keyVars, serviceVars, timeoutVars>>

\* lines 102-104, 193-195, 370-372: the status and the message of the
\* answer to a request whose registry call succeeded
successResponse(op) ==
    IF op = "create"
        THEN [status |-> StatusCreated, message |-> "Computer created successfully"]
    ELSE IF op = "update"
        THEN [status |-> StatusOK, message |-> "Computer updated successfully"]
    ELSE [status |-> StatusOK, message |-> "Computer successfully assigned to employee"]

\* what the check of task has come to when the handler answers
checkState(task) ==
    IF task.cpc # "done" THEN "pending"
    ELSE IF task.failed = "none" THEN "ended"
    ELSE task.failed

\* a handler that calls the check and answers when it has returned
Respond_AfterCheck(t) ==
    /\ tasks[t].hpc = "respond"
    /\ tasks[t].cpc = "done"
    /\ tasks' = [tasks EXCEPT ![t].hpc = "done", ![t].op = "none", ![t].failed = "none"]
    /\ last' = [NoEvent EXCEPT
           !.kind = "responded",
           !.op = tasks[t].op,
           !.check = checkState(tasks[t]),
           !.status = successResponse(tasks[t].op).status,
           !.message = successResponse(tasks[t].op).message]
    /\ UNCHANGED <<registry, commits, marks>>
    /\ UNCHANGED <<sendVars, rateVars, keyVars, serviceVars, timeoutVars>>

\* lines 102-104, 193-195, 370-372: after the go statement the handler
\* writes its answer and returns
Respond(t) ==
    /\ tasks[t].hpc = "respond"
    /\ tasks' = [tasks EXCEPT ![t].hpc = "done", ![t].op = "none", ![t].failed = "none"]
    /\ last' = [NoEvent EXCEPT
           !.kind = "responded",
           !.op = tasks[t].op,
           !.check = checkState(tasks[t]),
           !.status = successResponse(tasks[t].op).status,
           !.message = successResponse(tasks[t].op).message]
    /\ UNCHANGED <<registry, commits, marks>>
    /\ UNCHANGED <<sendVars, rateVars, keyVars, serviceVars, timeoutVars>>

\* the registries the handlers start from: some computers assigned to one
\* employee, some unassigned, the rest not created; the computers that no
\* request names exist, and are all assigned or all unassigned
Registries ==
    {reg \in [Computers -> {"ABC", "", Absent}] :
        /\ \A c, d \in Computers :
               c < d => /\ ~(reg[d] = "ABC" /\ reg[c] # "ABC")
                        /\ ~(reg[c] = Absent /\ reg[d] # Absent)
        /\ \A c, d \in Computers \ Targets : reg[c] = reg[d] /\ reg[c] # Absent}

PolicyInit ==
    /\ registry \in Registries
    /\ commits = 0
    /\ tasks = [t \in 1..MaxTasks |-> NoTask]
    /\ marks = [e \in Employees |-> NoMark]
    /\ last = NoEvent
    /\ config = [URL |-> "http://notifier:8080/api/notify", Timeout |-> 1,
                 RetryAttempts |-> 0, RetryDelay |-> 0, MaxPayloadSize |-> 1024]
    /\ SendIdle
    /\ secConfig = [RateLimitRPS |-> 1, RateLimitBurst |-> 1,
                    TrustedProxies |-> <<"10.0.0.1">>]
    /\ RateIdle
    /\ KeyIdle
    /\ ServiceIdle
    /\ TimeoutIdle

PolicyNext ==
    \/ \E t \in 1..MaxTasks, q \in HandlerRequests : Handle(t, q)
    \/ \E t \in 1..MaxTasks, ok \in BOOLEAN : CheckRead(t, ok)
    \/ \E t \in 1..MaxTasks, ok \in BOOLEAN : CheckDispatch(t, ok)
    \/ \E t \in 1..MaxTasks : Respond(t)

PolicySpec == PolicyInit /\ [][PolicyNext]_vars

\* a goroutine that was started runs: its read returns and its call returns
PolicyFairSpec ==
    /\ PolicySpec
    /\ \A t \in 1..MaxTasks : WF_vars(\E ok \in BOOLEAN : CheckRead(t, ok))
    /\ \A t \in 1..MaxTasks : WF_vars(\E ok \in BOOLEAN : CheckDispatch(t, ok))

\* every handler that has reached its answer writes it; nothing is assumed
\* of the checks, which may never return
PolicyAnswerSpec ==
    /\ PolicySpec
    /\ \A t \in 1..MaxTasks : WF_vars(Respond(t))

KeyInit ==
    /\ secConfig \in [RateLimitRPS : {1}, RateLimitBurst : {1}, TrustedProxies : ProxyLists]
    /\ KeyIdle
    /\ ServiceIdle
    /\ TimeoutIdle
    /\ RateIdle
    /\ config = [URL |-> "http://notifier:8080/api/notify", Timeout |-> 1,
                 RetryAttempts |-> 0, RetryDelay |-> 0, MaxPayloadSize |-> 1024]
    /\ SendIdle
    /\ PolicyIdle

KeySpec == KeyInit /\ [][KeyNext]_vars

---------------------------------------------------------------------------
(* The ComputerService: CreateComputer, which validates against the         *)
(* registry, inserts, and starts checkAndNotifyThreshold in a goroutine;    *)
(* UpdateComputer, which writes the MAC address and the employee code       *)
(* without counting and starts the same check when the code changed; and    *)
(* DeleteComputer.  Every call of the repository is a step of its own, and  *)
(* it fails (ok is FALSE) when the database fails or when its context, the  *)
(* caller's under the repository's own timeout, is done.  The goroutines    *)
(* that send the creation, update and deletion notifications read and write *)
(* nothing of the registry and are left out.  The table holds one computer  *)
(* for each MAC address (the constraint computers_mac_address_key).         *)

upperChar(ch) ==
    LET lower == "abcdefghijklmnopqrstuvwxyz"
        upper == "ABCDEFGHIJKLMNOPQRSTUVWXYZ"
        at == {i \in 1..Len(lower) : SubSeq(lower, i, i) = ch}
    IN  IF at = {} THEN ch ELSE LET i == CHOOSE k \in at : TRUE IN SubSeq(upper, i, i)

\* strings.ToUpper
RECURSIVE ToUpper(_)
ToUpper(s) ==
    IF s = "" THEN "" ELSE upperChar(SubSeq(s, 1, 1)) \o ToUpper(SubSeq(s, 2, Len(s)))

\* strings.ReplaceAll(s, old, new) for an old of one character
RECURSIVE ReplaceAll(_, _, _)
ReplaceAll(s, old, new) ==
    IF s = "" THEN ""
    ELSE (IF SubSeq(s, 1, 1) = old THEN new ELSE SubSeq(s, 1, 1))
             \o ReplaceAll(SubSeq(s, 2, Len(s)), old, new)

\* strings.Split(s, sep) for a sep of one character
RECURSIVE Split(_, _)
Split(s, sep) ==
    LET at == {i \in 1..Len(s) : SubSeq(s, i, i) = sep}
    IN  IF at = {} THEN <<s>>
        ELSE LET i == CHOOSE k \in at : \A l \in at : k <= l
             IN  <<SubSeq(s, 1, i - 1)>> \o Split(SubSeq(s, i + 1, Len(s)), sep)

\* isValidMACAddress of the service: six parts of two characters
isValidMACAddress(mac) ==
    LET parts == Split(ReplaceAll(mac, "-", ":"), ":")
    IN  Len(parts) = 6 /\ \A i \in 1..Len(parts) : Len(parts[i]) = 2

\* lines 78 and 148: strings.ToUpper(strings.ReplaceAll(mac, "-", ":"))
normalizeMAC(mac) == ToUpper(ReplaceAll(mac, "-", ":"))

\* validation.ValidateMAC: the normalized address, or the error when it is
\* not six pairs of hexadecimal digits
ValidateMAC(mac) ==
    LET normalized == ReplaceAll(ToUpper(ReplaceAll(mac, " ", "")), "-", ":")
        parts == Split(normalized, ":")
        hex == "0123456789ABCDEF"
        matches ==
            /\ Len(parts) = 6
            /\ \A i \in 1..Len(parts) :
                   /\ Len(parts[i]) = 2
                   /\ \A k \in 1..2 : Contains(hex, SubSeq(parts[i], k, k))
    IN  IF matches THEN [normalized |-> normalized, err |-> Nil]
        ELSE [normalized |-> "", err |-> "invalid MAC address format: " \o mac]

\* ComputerService.validateEmployeeAbbreviation
serviceValidateEmployeeAbbreviation(abbrev) ==
    IF Len(abbrev) < MinEmployeeAbbrevLength
        THEN "employee abbreviation must be at least 2 characters"
    ELSE IF Len(abbrev) > MaxEmployeeAbbrevLength
        THEN "employee abbreviation must be at most 10 characters"
    ELSE Nil

\* the computers CreateComputer is called with: the MAC address (two that
\* no computer holds at the start, that of the first computer as a client
\* may write it, one with six pairs that are not hexadecimal, and one that
\* is not an address), the employee code, and wellFormed for the name and
\* the IP address
ServiceRequests ==
    [mac : {MACOf(MaxComputersPerEmployee), MACOf(MaxComputersPerEmployee + 1),
            "aa-bb-cc-dd-ee-01", "GG:BB:CC:DD:EE:05", "AA:BB"},
     emp : {"ABC", "", "A"}, wellFormed : BOOLEAN]

\* the updates UpdateComputer is called with: the computer, the MAC address
\* of the updates (none, that of the second computer, also as a client may
\* write it, and one that is not an address), the employee code, and
\* wellFormed for the IP address
UpdateRequests ==
    [id : {1, 2},
     mac : {"", MACOf(2), "aa-bb-cc-dd-ee-02", "AA:BB"},
     emp : {"ABC", "", "A"}, wellFormed : BOOLEAN]

\* the MAC addresses of the requests, and for each of them the results of
\* isValidMACAddress, of the normalization of lines 78 and 148, and of
\* ValidateMAC on the normalized address
RequestMACs == {q.mac : q \in ServiceRequests} \cup {q.mac : q \in UpdateRequests}

macValid == [m \in RequestMACs |-> isValidMACAddress(m)]

macNormalized == [m \in RequestMACs |-> normalizeMAC(m)]

macChecked == [m \in RequestMACs |-> ValidateMAC(normalizeMAC(m))]

\* len(computers) of GetComputersByEmployee on the service's registry
ServiceCount(reg, employee) ==
    Cardinality({c \in ServiceComputers : reg[c].emp = employee})

\* the rows of reg that hold a computer with MAC address mac
rowsByMAC(reg, mac) ==
    {c \in ServiceComputers : reg[c].emp # Absent /\ reg[c].mac = mac}

\* lines 221-246 of validateComputerForCreation: the checks that need no
\* repository call
fieldError(q) ==
    IF q.mac = "" \/ ~q.wellFormed \/ ~macValid[q.mac] THEN "validation error"
    ELSE IF q.emp # "" THEN serviceValidateEmployeeAbbreviation(q.emp)
    ELSE Nil

\* lines 67-71 and 221-246: CreateComputer is called with computer q
CreateComputer(c, q) ==
    /\ calls[c].pc = "none"
    /\ \A u \in 1..(c - 1) : calls[u].pc # "none"
    /\ calls' = [calls EXCEPT ![c] =
           IF fieldError(q) # Nil
           THEN [NoCall EXCEPT !.pc = "done", !.result = "validation"]
           ELSE [NoCall EXCEPT !.pc = "exists", !.mac = q.mac, !.emp = q.emp]]
    /\ UNCHANGED <<store, sendVars, rateVars, keyVars, policyVars, timeoutVars>>

\* lines 248-255: repo.ComputerExists with the MAC address as it was sent
ValidateExists(c, ok) ==
    /\ calls[c].pc = "exists"
    /\ calls' = [calls EXCEPT ![c] =
           IF ~ok THEN [NoCall EXCEPT !.pc = "done", !.result = "database"]
           ELSE IF rowsByMAC(store, calls[c].mac) # {}
               THEN [NoCall EXCEPT !.pc = "done", !.result = "already exists"]
           ELSE [@ EXCEPT !.pc = IF calls[c].emp # "" THEN "count" ELSE "insert"]]
    /\ UNCHANGED <<store, sendVars, rateVars, keyVars, policyVars, timeoutVars>>

\* lines 257-266: repo.GetComputersByEmployee and the comparison with
\* MaxComputersPerEmployee
ValidateCount(c, ok) ==
    /\ calls[c].pc = "count"
    /\ LET count == ServiceCount(store, calls[c].emp)
       IN  calls' = [calls EXCEPT ![c] =
               IF ~ok THEN [NoCall EXCEPT !.pc = "done", !.result = "database"]
               ELSE IF count >= MaxComputersPerEmployee
                   THEN [NoCall EXCEPT !.pc = "done", !.result = "validation",
                                       !.seen = count]
               ELSE [@ EXCEPT !.pc = "insert", !.seen = count]]
    /\ UNCHANGED <<store, sendVars, rateVars, keyVars, policyVars, timeoutVars>>

\* lines 73-97: the new ID, the normalized MAC address, repo.CreateComputer
\* (which validates the address again and inserts unless a computer holds
\* it), the go statement, and the return of the computer
RepoCreate(c, ok) ==
    /\ calls[c].pc = "insert"
    /\ \E r \in ServiceComputers : store[r] = NoRow
    /\ LET checked == macChecked[calls[c].mac]
           row == CHOOSE r \in ServiceComputers :
                      store[r] = NoRow /\ \A u \in 1..(r - 1) : store[u] # NoRow
       IN  IF ok /\ checked.err = Nil /\ rowsByMAC(store, checked.normalized) = {}
           THEN /\ store' = [store EXCEPT ![row] =
                       [mac |-> checked.normalized, emp |-> calls[c].emp]]
                /\ calls' = [calls EXCEPT ![c] =
                       [NoCall EXCEPT !.pc = "check", !.emp = calls[c].emp,
                                      !.result = Nil,
                                      !.ctx = thresholdContext]]
           ELSE /\ calls' = [calls EXCEPT ![c] =
                       [NoCall EXCEPT !.pc = "done", !.result = "database"]]
                /\ UNCHANGED store
    /\ UNCHANGED <<sendVars, rateVars, keyVars, policyVars, timeoutVars>>

\* lines 289-297 of validateComputerForUpdate: the IP address and the
\* employee code
updateError(q) ==
    IF ~q.wellFormed THEN "validation error"
    ELSE IF q.emp # "" THEN serviceValidateEmployeeAbbreviation(q.emp)
    ELSE Nil

\* line 127: UpdateComputer is called for computer q.id with the updates q;
\* the call keeps the employee code when lines 289-297 accept the updates,
\* which is when the code reads it
UpdateComputer(c, q) ==
    /\ calls[c].pc = "none"
    /\ \A u \in 1..(c - 1) : calls[u].pc # "none"
    /\ calls' = [calls EXCEPT ![c] =
           [NoCall EXCEPT !.pc = "get", !.id = q.id,
                          !.mac = q.mac,
                          !.emp = IF updateError(q) # Nil THEN "" ELSE q.emp,
                          !.bad = updateError(q) # Nil]]
    /\ UNCHANGED <<store, sendVars, rateVars, keyVars, policyVars, timeoutVars>>

\* lines 129-140 and 273-277: repo.GetComputerByID; then, of
\* validateComputerForUpdate, the format of a MAC address that was sent, or
\* without one the checks of lines 289-297
UpdateGet(c, ok) ==
    /\ calls[c].pc = "get"
    /\ calls' = [calls EXCEPT ![c] =
           IF ~ok THEN [NoCall EXCEPT !.pc = "done", !.result = "database"]
           ELSE IF store[calls[c].id] = NoRow
               THEN [NoCall EXCEPT !.pc = "done", !.result = "not found"]
           ELSE IF calls[c].mac # "" /\ ~macValid[calls[c].mac]
               THEN [NoCall EXCEPT !.pc = "done", !.result = "validation"]
           ELSE IF calls[c].mac # ""
               THEN [@ EXCEPT !.pc = "bymac", !.old = store[calls[c].id].emp]
           ELSE IF calls[c].bad
               THEN [NoCall EXCEPT !.pc = "done", !.result = "validation"]
           ELSE [@ EXCEPT !.pc = "write", !.old = store[calls[c].id].emp]]
    /\ UNCHANGED <<store, sendVars, rateVars, keyVars, policyVars, timeoutVars>>

\* lines 279-297 of validateComputerForUpdate: repo.GetComputerByMAC with
\* the MAC address as it was sent, the computer that holds it, and the
\* checks of the IP address and the employee code
UpdateByMAC(c, ok) ==
    /\ calls[c].pc = "bymac"
    /\ calls' = [calls EXCEPT ![c] =
           IF ~ok THEN [NoCall EXCEPT !.pc = "done", !.result = "database"]
           ELSE IF rowsByMAC(store, calls[c].mac) \ {calls[c].id} # {}
               THEN [NoCall EXCEPT !.pc = "done", !.result = "already exists"]
           ELSE IF calls[c].bad
               THEN [NoCall EXCEPT !.pc = "done", !.result = "validation"]
           ELSE [@ EXCEPT !.pc = "write"]]
    /\ UNCHANGED <<store, sendVars, rateVars, keyVars, policyVars, timeoutVars>>

\* lines 146-154: the normalized MAC address and repo.UpdateComputer, which
\* sets the MAC address and the employee code of the row; it fails when
\* another computer holds the address, and finds no row when the computer
\* has been deleted meanwhile
UpdateWrite(c, ok) ==
    /\ calls[c].pc = "write"
    /\ LET mac == IF calls[c].mac # "" THEN macNormalized[calls[c].mac] ELSE ""
       IN  IF /\ ok
              /\ store[calls[c].id] # NoRow
              /\ rowsByMAC(store, mac) \ {calls[c].id} = {}
           THEN /\ store' = [store EXCEPT ![calls[c].id] =
                       [mac |-> mac, emp |-> calls[c].emp]]
                /\ calls' = [calls EXCEPT ![c] = [@ EXCEPT !.pc = "reget", !.mac = ""]]
           ELSE /\ calls' = [calls EXCEPT ![c] =
                       [NoCall EXCEPT !.pc = "done", !.result = "database"]]
                /\ UNCHANGED store
    /\ UNCHANGED <<sendVars, rateVars, keyVars, policyVars, timeoutVars>>

\* lines 157-172: repo.GetComputerByID again, the go statement when the
\* employee code changed and is not empty, and the return of the computer
UpdateReget(c, ok) ==
    /\ calls[c].pc = "reget"
    /\ calls' = [calls EXCEPT ![c] =
           IF ~ok \/ store[calls[c].id] = NoRow
               THEN [NoCall EXCEPT !.pc = "done", !.result = "database"]
           ELSE IF calls[c].old # calls[c].emp /\ calls[c].emp # ""
               THEN [NoCall EXCEPT !.pc = "check", !.emp = calls[c].emp,
                                   !.result = Nil,
                                   !.ctx = thresholdContext]
           ELSE [NoCall EXCEPT !.pc = "done", !.result = Nil]]
    /\ UNCHANGED <<store, sendVars, rateVars, keyVars, policyVars, timeoutVars>>

\* line 176: DeleteComputer is called for computer id
DeleteComputer(c, id) ==
    /\ calls[c].pc = "none"
    /\ \A u \in 1..(c - 1) : calls[u].pc # "none"
    /\ calls' = [calls EXCEPT ![c] = [NoCall EXCEPT !.pc = "find", !.id = id]]
    /\ UNCHANGED <<store, sendVars, rateVars, keyVars, policyVars, timeoutVars>>

\* lines 178-184: repo.GetComputerByID
DeleteGet(c, ok) ==
    /\ calls[c].pc = "find"
    /\ calls' = [calls EXCEPT ![c] =
           IF ~ok THEN [NoCall EXCEPT !.pc = "done", !.result = "database"]
           ELSE IF store[calls[c].id] = NoRow
               THEN [NoCall EXCEPT !.pc = "done", !.result = "not found"]
           ELSE [@ EXCEPT !.pc = "remove"]]
    /\ UNCHANGED <<store, sendVars, rateVars, keyVars, policyVars, timeoutVars>>

\* lines 187-198: repo.DeleteComputer, and the return
DeleteRemove(c, ok) ==
    /\ calls[c].pc = "remove"
    /\ IF ok /\ store[calls[c].id] # NoRow
       THEN /\ store' = [store EXCEPT ![calls[c].id] = NoRow]
            /\ calls' = [calls EXCEPT ![c] =
                   [NoCall EXCEPT !.pc = "done", !.result = Nil]]
       ELSE /\ calls' = [calls EXCEPT ![c] =
                   [NoCall EXCEPT !.pc = "done", !.result = "database"]]
            /\ UNCHANGED store
    /\ UNCHANGED <<sendVars, rateVars, keyVars, policyVars, timeoutVars>>

\* the caller's context is done once the call has returned and the request
\* is over, while the check goes on
RequestOver(c) ==
    /\ calls[c].pc \in {"check", "dispatch"}
    /\ ~calls[c].requestDone
    /\ calls' = [calls EXCEPT ![c].requestDone = TRUE]
    /\ UNCHANGED <<store, sendVars, rateVars, keyVars, policyVars, timeoutVars>>

\* the context a repository method runs its query under: the caller's with
\* the method's own timeout
repoContext(c, timeout) ==
    [parent |-> c.parent,
     timeout |-> IF c.timeout = NoTimeout THEN timeout ELSE Min(c.timeout, timeout)]

\* the context of the registry read of a check that runs under c
readContext(c) == repoContext(c, GetComputersByEmployeeTimeout)

\* lines 314-326 of checkAndNotifyThreshold: the empty code, the read under
\* the check's context, and the comparison with MaxComputersPerEmployee
ThresholdRead(c, ok) ==
    /\ calls[c].pc = "check"
    /\ ok => ~Done(readContext(calls[c].ctx), calls[c].requestDone)
    /\ LET count == ServiceCount(store, calls[c].emp)
       IN  calls' = [calls EXCEPT ![c] =
               IF calls[c].emp = "" \/ ~ok \/ count < MaxComputersPerEmployee
               THEN [NoCall EXCEPT !.pc = "done", !.result = Nil]
               ELSE [@ EXCEPT !.pc = "dispatch"]]
    /\ UNCHANGED <<store, sendVars, rateVars, keyVars, policyVars, timeoutVars>>

\* lines 327-342 of checkAndNotifyThreshold: SendComputerNotification, and
\* with it SendNotificationWithContext, under the check's context; its
\* error is logged
ThresholdDispatch(c, ok) ==
    /\ calls[c].pc = "dispatch"
    /\ ok => ~Done(calls[c].ctx, calls[c].requestDone)
    /\ calls' = [calls EXCEPT ![c] =
           [NoCall EXCEPT !.pc = "done", !.result = Nil, !.sent = 1]]
    /\ UNCHANGED <<store, sendVars, rateVars, keyVars, policyVars, timeoutVars>>

\* the registries the service starts from: the first rows hold the
\* computers of one employee, fewer than MaxComputersPerEmployee
ServiceStores ==
    {[c \in ServiceComputers |->
         IF c <= k THEN [mac |-> MACOf(c), emp |-> "ABC"] ELSE NoRow] :
     k \in 0..(MaxComputersPerEmployee - 1)}

ServiceInit ==
    /\ store \in ServiceStores
    /\ calls = [c \in 1..MaxCalls |-> NoCall]
    /\ config = [URL |-> "http://notifier:8080/api/notify", Timeout |-> 1,
                 RetryAttempts |-> 0, RetryDelay |-> 0, MaxPayloadSize |-> 1024]
    /\ SendIdle
    /\ secConfig = [RateLimitRPS |-> 1, RateLimitBurst |-> 1,
                    TrustedProxies |-> <<"10.0.0.1">>]
    /\ RateIdle
    /\ KeyIdle
    /\ PolicyIdle
    /\ TimeoutIdle

ServiceNext ==
    \/ \E c \in 1..MaxCalls, q \in ServiceRequests : CreateComputer(c, q)
    \/ \E c \in 1..MaxCalls, ok \in BOOLEAN : ValidateExists(c, ok)
    \/ \E c \in 1..MaxCalls, ok \in BOOLEAN : ValidateCount(c, ok)
    \/ \E c \in 1..MaxCalls, ok \in BOOLEAN : RepoCreate(c, ok)
    \/ \E c \in 1..MaxCalls, q \in UpdateRequests : UpdateComputer(c, q)
    \/ \E c \in 1..MaxCalls, ok \in BOOLEAN : UpdateGet(c, ok)
    \/ \E c \in 1..MaxCalls, ok \in BOOLEAN : UpdateByMAC(c, ok)
    \/ \E c \in 1..MaxCalls, ok \in BOOLEAN : UpdateWrite(c, ok)
    \/ \E c \in 1..MaxCalls, ok \in BOOLEAN : UpdateReget(c, ok)
    \/ \E c \in 1..MaxCalls, id \in {1, 2} : DeleteComputer(c, id)
    \/ \E c \in 1..MaxCalls, ok \in BOOLEAN : DeleteGet(c, ok)
    \/ \E c \in 1..MaxCalls, ok \in BOOLEAN : DeleteRemove(c, ok)
    \/ \E c \in 1..MaxCalls : RequestOver(c)
    \/ \E c \in 1..MaxCalls, ok \in BOOLEAN : ThresholdRead(c, ok)
    \/ \E c \in 1..MaxCalls, ok \in BOOLEAN : ThresholdDispatch(c, ok)

ServiceSpec == ServiceInit /\ [][ServiceNext]_vars

---------------------------------------------------------------------------
(* The RequestTimeout middleware: it derives a context with the deadline    *)
(* sm.config.RequestTimeout, runs the next handler in a goroutine that      *)
(* sends on the buffered channel done when the handler returns, and selects *)
(* between done and ctx.Done().  The handler and the middleware hold the    *)
(* same response writer w.                                                  *)

\* line 105: http.Error(w, "Request timeout", http.StatusRequestTimeout)
timeoutResponse == [by |-> "timeout", status |-> StatusRequestTimeout]

\* how the handler behind the middleware comes to its answer: it succeeded,
\* it created a computer, it retrieved one or a list, it rejected the
\* request, or its registry call failed with one of the errors
\* HandleRepositoryError tells apart
HandlerOutcomes ==
    {"ok", "created", "retrieved", "invalid", "not found", "duplicate",
     "deadline", "error"}

\* what the handler sends: SendSuccessResponse with StatusOK or
\* StatusCreated, SendJSONResponse with StatusOK, or SendErrorResponse with
\* the status of a validation error or of HandleRepositoryError
handlerResponse(outcome) ==
    [by |-> "handler",
     sender |-> IF outcome \in {"ok", "created"} THEN "SendSuccessResponse"
                ELSE IF outcome = "retrieved" THEN "SendJSONResponse"
                ELSE "SendErrorResponse",
     status |-> IF outcome \in {"ok", "retrieved"} THEN StatusOK
                ELSE IF outcome = "created" THEN StatusCreated
                ELSE IF outcome = "invalid" THEN StatusBadRequest
                ELSE IF outcome = "not found" THEN StatusNotFound
                ELSE IF outcome = "duplicate" THEN StatusConflict
                ELSE IF outcome = "deadline" THEN StatusRequestTimeout
                ELSE StatusInternalServerError]

\* a call on the response writer w: who made it, which method, and the
\* status of WriteHeader
wCall(by, call, status) == [by |-> by, call |-> call, status |-> status]

\* how json.NewEncoder(w).Encode ends: the value is written, it cannot be
\* marshalled and nothing is written, or w.Write returns an error
EncodeResults == {"ok", "marshal error", "write error"}

\* lines 84-96: the middleware is called, derives ctx, makes done and starts
\* the goroutine
TimedServe(r) ==
    /\ timed[r].pc = "none"
    /\ \A u \in 1..(r - 1) : timed[u].pc # "none"
    /\ timed' = [timed EXCEPT ![r] =
           [NoTimed EXCEPT !.pc = "select", !.hpc = "running", !.err = Nil]]
    /\ UNCHANGED <<sendVars, rateVars, keyVars, policyVars, serviceVars>>

\* line 85: the deadline of ctx passes before ctx is cancelled
DeadlineExceeded(r) ==
    /\ timed[r].pc = "select"
    /\ timed[r].err = Nil
    /\ timed' = [timed EXCEPT ![r].err = "deadline"]
    /\ UNCHANGED <<sendVars, rateVars, keyVars, policyVars, serviceVars>>

\* line 85: the parent r.Context() is cancelled, the client having gone
ParentCanceled(r) ==
    /\ timed[r].pc = "select"
    /\ timed[r].err = Nil
    /\ timed' = [timed EXCEPT ![r].err = "canceled"]
    /\ UNCHANGED <<sendVars, rateVars, keyVars, policyVars, serviceVars>>

\* line 94: next.ServeHTTP(w, r) comes to its response, and the function
\* that sends it sets the content type in w.Header() and calls
\* w.WriteHeader(statusCode); the deadline a registry call exceeds may be
\* the handler's or the repository's own, which are shorter than the
\* middleware's.  Nothing makes the goroutine stop when the middleware
\* returns
HandlerWrite(r, outcome) ==
    /\ timed[r].hpc = "running"
    /\ timed' = [timed EXCEPT ![r] =
           [@ EXCEPT !.hpc = "status",
                     !.sender = handlerResponse(outcome).sender,
                     !.writes = Append(@, wCall("handler", "WriteHeader",
                                                handlerResponse(outcome).status))]]
    /\ UNCHANGED <<sendVars, rateVars, keyVars, policyVars, serviceVars>>

\* json.NewEncoder(w).Encode of the function that sends the response: its
\* error is logged, and SendJSONResponse goes on to SendErrorResponse
HandlerEncode(r, res) ==
    /\ timed[r].hpc = "status"
    /\ timed' = [timed EXCEPT ![r] =
           [@ EXCEPT !.hpc = IF res # "ok" /\ timed[r].sender = "SendJSONResponse"
                             THEN "failed" ELSE "written",
                     !.sender = "none",
                     !.writes = IF res = "marshal error" THEN @
                                ELSE Append(@, wCall("handler", "Write", 0))]]
    /\ UNCHANGED <<sendVars, rateVars, keyVars, policyVars, serviceVars>>

\* line 96 of SendJSONResponse: SendErrorResponse with
\* StatusInternalServerError on the same w, up to its w.WriteHeader
HandlerEncodingError(r) ==
    /\ timed[r].hpc = "failed"
    /\ timed' = [timed EXCEPT ![r] =
           [@ EXCEPT !.hpc = "status",
                     !.sender = "SendErrorResponse",
                     !.writes = Append(@, wCall("handler", "WriteHeader",
                                                StatusInternalServerError))]]
    /\ UNCHANGED <<sendVars, rateVars, keyVars, policyVars, serviceVars>>

\* lines 94-95: next.ServeHTTP returns and done <- true, which never blocks
HandlerReturn(r) ==
    /\ timed[r].hpc = "written"
    /\ timed' = [timed EXCEPT ![r] = [@ EXCEPT !.hpc = "returned", !.done = 1]]
    /\ UNCHANGED <<sendVars, rateVars, keyVars, policyVars, serviceVars>>

\* lines 98-101 and 86: case <-done, return, and the deferred cancel
SelectDone(r) ==
    /\ timed[r].pc = "select"
    /\ timed[r].done = 1
    /\ timed' = [timed EXCEPT ![r] =
           [@ EXCEPT !.pc = "returned", !.done = 0,
                     !.err = IF @ = Nil THEN "canceled" ELSE @]]
    /\ UNCHANGED <<sendVars, rateVars, keyVars, policyVars, serviceVars>>

\* lines 98 and 102-107: case <-ctx.Done() and the test of ctx.Err(); the
\* middleware returns unless the deadline was exceeded
SelectCtxDone(r) ==
    /\ timed[r].pc = "select"
    /\ timed[r].err # Nil
    /\ timed' = [timed EXCEPT ![r] =
           [@ EXCEPT !.pc = IF timed[r].err = "deadline" THEN "error"
                            ELSE "returned"]]
    /\ UNCHANGED <<sendVars, rateVars, keyVars, policyVars, serviceVars>>

\* line 105: http.Error sets the headers of w and calls
\* w.WriteHeader(StatusRequestTimeout), then writes the text, and the
\* middleware returns
TimeoutWrite(r) ==
    /\ timed[r].pc \in {"error", "error status"}
    /\ timed' = [timed EXCEPT ![r] =
           IF timed[r].pc = "error"
           THEN [@ EXCEPT !.pc = "error status",
                          !.writes = Append(@, wCall(timeoutResponse.by, "WriteHeader",
                                                     timeoutResponse.status))]
           ELSE [@ EXCEPT !.pc = "returned",
                          !.writes = Append(@, wCall(timeoutResponse.by, "Write", 0))]]
    /\ UNCHANGED <<sendVars, rateVars, keyVars, policyVars, serviceVars>>

TimeoutInit ==
    /\ TimeoutIdle
    /\ config = [URL |-> "http://notifier:8080/api/notify", Timeout |-> 1,
                 RetryAttempts |-> 0, RetryDelay |-> 0, MaxPayloadSize |-> 1024]
    /\ SendIdle
    /\ secConfig = [RateLimitRPS |-> 1, RateLimitBurst |-> 1,
                    TrustedProxies |-> <<"10.0.0.1">>]
    /\ RateIdle
    /\ KeyIdle
    /\ PolicyIdle
    /\ ServiceIdle

TimeoutNext ==
    \/ \E r \in 1..MaxTimed : TimedServe(r)
    \/ \E r \in 1..MaxTimed : DeadlineExceeded(r)
    \/ \E r \in 1..MaxTimed : ParentCanceled(r)
    \/ \E r \in 1..MaxTimed, outcome \in HandlerOutcomes : HandlerWrite(r, outcome)
    \/ \E r \in 1..MaxTimed, res \in EncodeResults : HandlerEncode(r, res)
    \/ \E r \in 1..MaxTimed : HandlerEncodingError(r)
    \/ \E r \in 1..MaxTimed : HandlerReturn(r)
    \/ \E r \in 1..MaxTimed : SelectDone(r)
    \/ \E r \in 1..MaxTimed : SelectCtxDone(r)
    \/ \E r \in 1..MaxTimed : TimeoutWrite(r)

TimeoutSpec == TimeoutInit /\ [][TimeoutNext]_vars

---------------------------------------------------------------------------
(* Properties of the notification client. *)

\* C1: if the endpoint answers 500 on the first k <= RetryAttempts attempts
\* and 200 on the next, and the context is live, Send returns nil after
\* exactly k+1 transport invocations.  Stated on finished runs whose failed
\* attempts were all 500 answers: a run that succeeded made n500+1
\* invocations, and a run that gave up had used all RetryAttempts+1 attempts.
C1_FailThenSucceed ==
    (pc = "done" /\ invocations >= 1 /\ ctx.err = "none" /\ ~obs.other)
        => IF result = Nil
           THEN invocations = obs.n500 + 1
           ELSE obs.n500 = config.RetryAttempts + 1

\* C2: against an endpoint that answers 500 on every attempt, Send (through
\* either entry point) fails after exactly RetryAttempts+1 invocations with
\* the aggregate error wrapping the last attempt's error.  Stated for 500
\* answers with an empty body that arrive while the context is live, and for
\* SendNotificationWithContext only while the caller's context stays live.
C2_AlwaysFailing ==
    (/\ pc = "done"
     /\ result # Nil
     /\ ~obs.other
     /\ lastErr = statusError(500, "")
     /\ ~obs.ctxDoneAtFail
     /\ (entry = "SendNotification" \/ ctx.err = "none"))
        => /\ invocations = config.RetryAttempts + 1
           /\ result = aggregateError(config.RetryAttempts + 1, lastErr)

\* C3: a failed attempt with a 4xx status is terminal: after it Send has
\* returned, and no further attempt or wait follows.
C3_ClientErrorTerminal ==
    (obs.lastStatus >= 400 /\ obs.lastStatus <= 499) => pc = "done"

\* C4: a transport failure or a 5xx answer is always retriable: with the
\* context live, Send gives up on such a failure only when all
\* RetryAttempts+1 attempts are used.
C4_ServerErrorRetriable ==
    (/\ pc = "done"
     /\ result # Nil
     /\ obs.lastKind \in {"transport", "timeout", "5xx"}
     /\ ctx.err = "none")
        => invocations = config.RetryAttempts + 1

\* C5: Send with a notification that fails validation returns an error
\* without any transport invocation and without any retry.
C5_InvalidNeverSent ==
    LET n == notification
        invalid == \/ n.Level \notin {"info", "warning", "error", "critical"}
                   \/ Len(n.Message) = 0
                   \/ Len(n.Message) > 1000
                   \/ Len(n.EmployeeAbbreviation) > 10
    IN  (pc # "idle" /\ invalid)
            => /\ pc = "done"
               /\ invocations = 0
               /\ attempt = 0
               /\ Contains(result, "invalid notification")

C5_Witness ==
    /\ pc = "done"
    /\ notification.Level = "debug"
    /\ invocations = 0
    /\ Contains(result, "invalid notification")

\* C6: Send with a valid notification whose serialized size exceeds
\* MaxPayloadSize fails at once with the payload-too-large error: zero
\* transport invocations, no retry, whatever RetryAttempts is.
C6_OversizeNeverSent ==
    LET n == notification
        valid == /\ n.Level \in {"info", "warning", "error", "critical"}
                 /\ Len(n.Message) \in 1..1000
                 /\ Len(n.EmployeeAbbreviation) <= 10
    IN  (pc # "idle" /\ valid /\ Len(Marshal(n)) > config.MaxPayloadSize)
            => /\ pc = "done"
               /\ invocations = 0
               /\ attempt = 0
               /\ result = payloadTooLarge(Len(Marshal(n)), config.MaxPayloadSize)

C6_Witness ==
    /\ pc = "done"
    /\ config.RetryAttempts > 0
    /\ config.MaxPayloadSize = 1024
    /\ Len(notification.Message) = 1000
    /\ invocations = 0
    /\ Contains(result, "payload too large")

\* C7: once the context is done, Send never starts another delivery attempt.
\* Stated for a context that was already done when the previous attempt
\* failed, so before the backoff wait began.
C7_NoAttemptAfterCancel == ~obs.lateStart

\* C8: when the context is done while Send is in the backoff wait and the
\* wait has not run out, the next step of Send returns the context's error,
\* and the pending attempt is not fired.
C8_BackoffCancellable ==
    [][(pc = "backoff" /\ ctx.err # "none" /\ timer > 0)
          => /\ pc' = "done"
             /\ result' = ctxErrText(ctx)
             /\ invocations' = invocations]_vars

C8_Witness ==
    /\ pc = "done"
    /\ obs.backoffCancel
    /\ result \in {"context canceled", "context deadline exceeded"}

\* C9: every Send terminates and makes at most RetryAttempts+1 delivery
\* attempts, given that each request returns and time passes.
C9_TerminatesBounded ==
    /\ [](invocations <= config.RetryAttempts + 1 /\ attempt <= config.RetryAttempts + 1)
    /\ (pc # "idle") ~> (pc = "done")

C9_Witness ==
    /\ pc = "done"
    /\ config.RetryAttempts > 0
    /\ invocations = config.RetryAttempts + 1
    /\ obs.lastKind \in {"ctx", "timeout", "transport", "5xx", "4xx"}

---------------------------------------------------------------------------
(* Properties of the rate limiter. *)

\* C10: for a client key not seen before, with burst size B, the first B
\* requests decided with no time elapsing are all admitted and the next one
\* is denied; further requests stay denied until tokens replenish, so at any
\* time the key has been admitted at most B times plus the whole tokens
\* refilled since its first decision.
C10_BurstThenDenied ==
    \A k \in Keys :
        LET st == stats[k]
            B == secConfig.RateLimitBurst
            elapsed == now - st.first
        IN  st.first # -1 =>
                /\ st.admitted <= B + (secConfig.RateLimitRPS * elapsed) \div TicksPerSecond
                /\ (elapsed = 0 => st.admitted = Min(B, st.admitted + st.denied))

C10_Witness ==
    \E k \in Keys :
        /\ stats[k].first = now
        /\ secConfig.RateLimitBurst > 1
        /\ stats[k].admitted = secConfig.RateLimitBurst
        /\ stats[k].denied > 0

\* C11: check-and-consume is atomic per key.  In any step in which no time
\* passes, each key's bucket gives up exactly one token for each request it
\* admits and none otherwise; a request is admitted only when a whole token
\* is there and denied only when none is; the bucket never goes below zero.
\* So with T whole tokens and no refill at most T requests are admitted,
\* however the requests interleave.
C11_AtomicConsume ==
    [][now' = now =>
         \A k \in Keys :
             clients[k] # 0 =>
                 LET before == advance(limiters[clients[k]], now)
                     after == advance(limiters'[clients'[k]], now')
                     a == stats'[k].admitted - stats[k].admitted
                     d == stats'[k].denied - stats[k].denied
                 IN  /\ a \in {0, 1}
                     /\ d \in {0, 1}
                     /\ after = before - a * TicksPerSecond
                     /\ after >= 0
                     /\ a = 1 => before >= TicksPerSecond
                     /\ d = 1 => before < TicksPerSecond]_vars

\* two requests of one key were past the lookup together, with one token in
\* the bucket: the later one took it, and the earlier one was denied
C11_Witness ==
    \E r1, r2 \in 1..MaxRequests :
        /\ r1 < r2
        /\ secConfig.RateLimitBurst = 1
        /\ reqs[r1].pc = "reject"
        /\ reqs[r2].pc = "next"
        /\ reqs[r1].key = reqs[r2].key
        /\ reqs[r1].lim = reqs[r2].lim
        /\ stats[reqs[r1].key].admitted = 1
        /\ stats[reqs[r1].key].first = now

\* C12: at most one bucket is ever created per client key, every request of
\* the key decides against that bucket, and a bucket once inserted is never
\* replaced or removed.
C12_OneBucketPerKey ==
    /\ [](/\ Len(limiters) = Cardinality({k \in Keys : clients[k] # 0})
          /\ \A k \in Keys : clients[k] \in 0..Len(limiters)
          /\ \A r \in 1..MaxRequests :
                 reqs[r].pc \in {"allow", "next", "reject"}
                     => /\ reqs[r].lim # 0
                        /\ reqs[r].lim = clients[reqs[r].key])
    /\ [][\A k \in Keys : clients[k] # 0 => clients'[k] = clients[k]]_vars

\* two requests of one key hold the same bucket, the only one created, while
\* a third request is inside the critical section
C12_Witness ==
    \E r1, r2, r3 \in 1..MaxRequests :
        /\ r1 # r2
        /\ reqs[r1].pc = "allow"
        /\ reqs[r2].pc = "allow"
        /\ reqs[r1].key = reqs[r2].key
        /\ reqs[r1].lim = reqs[r2].lim
        /\ reqs[r3].pc = "looked"
        /\ reqs[r3].key = reqs[r1].key
        /\ Len(limiters) = 1

\* C13: the decision never queues.  A denied request is answered with 429 by
\* its next step, which is always possible, and never reaches the downstream
\* handler; an admitted request gets no answer from RateLimit and reaches the
\* downstream handler exactly once.
C13_NoQueue ==
    \A r \in 1..MaxRequests :
        LET x == resp[r]
        IN  /\ x.decision = "none" => x.served = 0 /\ x.status = 0
            /\ x.decision = "denied" =>
                   /\ x.served = 0
                   /\ reqs[r].pc \in {"reject", "done"}
                   /\ reqs[r].pc = "reject" => ENABLED Reject(r)
                   /\ reqs[r].pc = "done" => x.status = 429
            /\ x.decision = "admitted" =>
                   /\ x.status = 0
                   /\ reqs[r].pc \in {"next", "done"}
                   /\ x.served = IF reqs[r].pc = "done" THEN 1 ELSE 0

C13_Witness ==
    \E r1, r2 \in 1..MaxRequests :
        /\ reqs[r1].pc = "done"
        /\ reqs[r2].pc = "done"
        /\ resp[r1].decision = "denied"
        /\ resp[r1].status = 429
        /\ resp[r2].decision = "admitted"
        /\ resp[r2].served = 1

---------------------------------------------------------------------------
(* Properties of the client key. *)

\* C14: forwarded headers influence the key only for trusted peers.  For a
\* peer that is not in the trusted-proxy list the key is the peer address
\* without its port, so two requests of the same peer get the same key
\* whatever their headers; for a trusted peer the key is the first entry of
\* X-Forwarded-For, else X-Real-IP (surrounding blanks apart), else the peer
\* address without its port.
C14_HeadersOnlyFromTrusted ==
    LET NoChar(s, c) == \A i \in 1..Len(s) : SubSeq(s, i, i) # c
        Blank(s) == \A i \in 1..Len(s) : SubSeq(s, i, i) \in {" ", "\t"}
        \* h is address a without its port
        IsHost(h, a) ==
            \/ h = a /\ NoChar(a, ":")
            \/ \E i \in 1..Len(a) :
                   /\ h = SubSeq(a, 1, i - 1)
                   /\ SubSeq(a, i, i) = ":"
                   /\ NoChar(SubSeq(a, i + 1, Len(a)), ":")
        \* e is the first entry of the comma-separated x
        IsFirst(e, x) ==
            /\ NoChar(e, ",")
            /\ \/ e = x
               \/ /\ Len(e) < Len(x)
                  /\ SubSeq(x, 1, Len(e) + 1) = e \o ","
        \* k is e without the blanks around it
        IsTrimmed(k, e) ==
            \E i \in 1..(Len(e) + 1), j \in 0..Len(e) :
                /\ k = SubSeq(e, i, j)
                /\ Blank(SubSeq(e, 1, i - 1))
                /\ Blank(SubSeq(e, j + 1, Len(e)))
                /\ k # "" => ~Blank(SubSeq(k, 1, 1)) /\ ~Blank(SubSeq(k, Len(k), Len(k)))
        Trusted(a) ==
            \E i \in 1..Len(secConfig.TrustedProxies) :
                IsHost(secConfig.TrustedProxies[i], a)
        Keyed == {p \in Peers : peers[p].pc = "keyed"}
    IN  /\ \A p \in Keyed :
               LET r == peers[p]
               IN  IF ~Trusted(r.RemoteAddr)
                   THEN IsHost(r.clientIP, r.RemoteAddr)
                   ELSE IF r.XForwardedFor # ""
                   THEN \E e \in {SubSeq(r.XForwardedFor, 1, n) :
                                      n \in 0..Len(r.XForwardedFor)} :
                            IsFirst(e, r.XForwardedFor) /\ IsTrimmed(r.clientIP, e)
                   ELSE IF r.XRealIP # ""
                   THEN IsTrimmed(r.clientIP, r.XRealIP)
                   ELSE IsHost(r.clientIP, r.RemoteAddr)
        /\ \A p, q \in Keyed :
               (/\ peers[p].RemoteAddr = peers[q].RemoteAddr
                /\ ~Trusted(peers[p].RemoteAddr))
                   => peers[p].clientIP = peers[q].clientIP

\* two requests of one untrusted peer with different forwarded headers
C14_Witness ==
    /\ peers["first"].pc = "keyed"
    /\ peers["second"].pc = "keyed"
    /\ secConfig.TrustedProxies = <<"10.0.0.1">>
    /\ peers["first"].RemoteAddr = "192.168.1.9:40000"
    /\ peers["second"].RemoteAddr = "192.168.1.9:40000"
    /\ peers["first"].XForwardedFor = "198.51.100.7"
    /\ peers["second"].XForwardedFor = "203.0.113.5 , 10.0.0.1"
    /\ peers["first"].XRealIP # peers["second"].XRealIP
    /\ peers["first"].clientIP = "192.168.1.9"
    /\ peers["second"].clientIP = "192.168.1.9"

\* C15: the client key the rate limiter uses is never empty: when the value
\* taken from the forwarded-for or real-IP header of a trusted proxy would be
\* empty, the key is the peer address.
C15_KeyNeverEmpty ==
    \A p \in Peers :
        peers[p].pc = "keyed" => peers[p].clientIP # ""

---------------------------------------------------------------------------
(* Properties of the Threshold Policy. *)

\* C16: for a non-empty employee code and a registry read that returned
\* count c, one checkAndNotify call dispatches exactly one notification when
\* c >= 3 and none when c < 3; the notification has level warning, carries
\* the employee code, and its message and its metadata hold the count and
\* the threshold.
C16_DispatchAtThreshold ==
    LET c == last.count
        Occurs(text, i, part) == SubSeq(text, i, i + Len(part) - 1) = part
    IN  (last.kind = "checked" /\ last.cemp # "" /\ c # -1) =>
            IF c >= 3
            THEN /\ Len(last.sent) = 1
                 /\ LET n == last.sent[1]
                    IN  /\ n.Level = "warning"
                        /\ n.EmployeeAbbreviation = last.cemp
                        /\ \E i \in 1..Len(n.Message) :
                               /\ Occurs(n.Message, i, Itoa(c))
                               /\ \E j \in 1..Len(n.Message) :
                                      i # j /\ Occurs(n.Message, j, "3")
                        /\ \E i, j \in 1..Len(n.Metadata) :
                               /\ i # j
                               /\ n.Metadata[i][2] = Itoa(c)
                               /\ n.Metadata[j][2] = "3"
            ELSE last.sent = <<>>

\* a check read a count above the threshold and dispatched
C16_Witness ==
    /\ last.kind = "checked"
    /\ last.cemp = "ABC"
    /\ last.count = MaxComputersThreshold + 1
    /\ Len(last.sent) = 1
    /\ last.sent[1].Message = "Employee ABC has 4 computers assigned (threshold: 3)"

\* C17: checkAndNotify with an empty employee code reads the registry zero
\* times and dispatches nothing.
C17_EmptyCodeNoOp ==
    (last.kind = "checked" /\ last.cemp = "")
        => /\ last.reads = 0
           /\ last.count = -1
           /\ last.sent = <<>>

\* the check for the empty code ended while the registry held three
\* computers with an empty employee code
C17_Witness ==
    /\ last.kind = "checked"
    /\ last.cemp = ""
    /\ last.reads = 0
    /\ Cardinality({c \in Computers : registry[c] = ""}) >= 3

\* C18: when assignments that race bring an employee's count from below the
\* threshold to it or above, and after that the count does not fall and the
\* registry reads and the dispatch for the employee succeed, a notification
\* for the employee is eventually dispatched.
C18_RaceStillNotifies ==
    \A e \in Employees :
        (marks[e].crossed /\ ~marks[e].disturbed)
            ~> (marks[e].disturbed \/ marks[e].notified)

\* the second of two handlers crossed the threshold and its check has
\* dispatched, while the check of the first has not yet read the registry
C18_Witness ==
    /\ marks["ABC"].crossed
    /\ marks["ABC"].notified
    /\ ~marks["ABC"].disturbed
    /\ commits = 2
    /\ tasks[1].cpc = "start"
    /\ tasks[1].cemp = "ABC"
    /\ last.kind = "checked"
    /\ last.count = 3

\* C19: a threshold check is started only by a create, update or assign
\* handler whose registry mutation returned success, and it reads the
\* registry after that mutation; a handler whose mutation failed or whose
\* request was rejected starts no check.
C19_CheckAfterMutation ==
    /\ \A t \in 1..MaxTasks :
           tasks[t].cpc \in {"start", "dispatch"}
               => tasks[t].commit > 0 /\ tasks[t].commit <= commits
    /\ last.kind = "handled" =>
           /\ last.outcome \in {"rejected", "failed"} => ~last.started
           /\ last.started => last.op \in {"create", "update", "assign"}
    /\ (last.kind = "checked" /\ last.reads > 0 /\ last.count # -1) => last.fresh

\* a check read a count that holds its own and a later mutation
C19_Witness ==
    /\ last.kind = "checked"
    /\ last.fresh
    /\ last.count = 2
    /\ commits = 2
    /\ \A t \in 1..MaxTasks : tasks[t].cpc = "done"

\* C20: every successful change of a computer's employee assignment (create
\* with an assignment, reassignment through update, explicit assign, explicit
\* unassign) is followed by one Threshold Policy evaluation for the affected
\* employee: the handler starts checkAndNotify for that employee.
C20_EveryChangeEvaluated ==
    (last.kind = "handled" /\ last.outcome = "ok" /\ last.affected # "")
        => /\ last.started
           /\ last.cemp = last.affected

---------------------------------------------------------------------------
(* Properties of the token bucket over time. *)

\* C25: for a client key whose bucket has just been drained to zero tokens,
\* after waiting at least 1/R seconds with no request of the key deciding in
\* between, the next request of the key is admitted, and the one after it,
\* at the same instant, is denied.
C25_ExactlyOneAfterWait ==
    [][\A k \in Keys :
          clients[k] # 0 =>
              LET l == limiters[clients[k]]
                  a == stats'[k].admitted - stats[k].admitted
                  d == stats'[k].denied - stats[k].denied
                  waited == now - l.last
              IN  (/\ l.last # ZeroTime
                   /\ l.tokens = 0
                   /\ secConfig.RateLimitRPS * waited >= TicksPerSecond
                   /\ a + d = 1)
                      => /\ a = 1
                         /\ ~allowed(limiters'[clients[k]], now)]_vars

\* C25, amended: after a wait of w >= 1/R seconds from a bucket drained to
\* zero, the next request of the key is admitted, and min(B, floor(w * R))
\* requests are admitted at that instant in all: the one after the first is
\* denied exactly when that number is 1, that is when w < 2/R or B = 1.
C25_ReplenishedTokens ==
    [][\A k \in Keys :
          clients[k] # 0 =>
              LET l == limiters[clients[k]]
                  a == stats'[k].admitted - stats[k].admitted
                  d == stats'[k].denied - stats[k].denied
                  waited == now - l.last
                  whole == Min(secConfig.RateLimitBurst,
                               (secConfig.RateLimitRPS * waited) \div TicksPerSecond)
                  after == limiters'[clients[k]]
              IN  (/\ l.last # ZeroTime
                   /\ l.tokens = 0
                   /\ secConfig.RateLimitRPS * waited >= TicksPerSecond
                   /\ a + d = 1)
                      => /\ a = 1
                         /\ after.last = now
                         /\ after.tokens \div TicksPerSecond = whole - 1
                         /\ allowed(after, now) <=> whole >= 2]_vars

\* a key used up its burst at time 0, waited, and was admitted once more,
\* which left its bucket at zero again
C25_Witness ==
    \E k \in Keys :
        /\ clients[k] # 0
        /\ stats[k].first = 0
        /\ now > 0
        /\ limiters[clients[k]].last = now
        /\ limiters[clients[k]].tokens = 0
        /\ stats[k].admitted = secConfig.RateLimitBurst + 1

\* C26: in every reachable state the token count of every bucket, as stored
\* and as replenished up to the present time, is between 0 and the burst
\* capacity B.
C26_TokensWithinBurst ==
    \A i \in 1..Len(limiters) :
        LET cap == secConfig.RateLimitBurst * TicksPerSecond
        IN  /\ limiters[i].tokens >= 0
            /\ limiters[i].tokens <= cap
            /\ advance(limiters[i], now) >= 0
            /\ advance(limiters[i], now) <= cap

\* a bucket that has admitted a request has since been refilled by more than
\* it can hold, and another bucket stands at zero
C26_Witness ==
    \E i, j \in 1..Len(limiters) :
        /\ limiters[i].last # ZeroTime
        /\ limiters[i].tokens + secConfig.RateLimitRPS * (now - limiters[i].last)
               > secConfig.RateLimitBurst * TicksPerSecond
        /\ limiters[j].last = now
        /\ limiters[j].tokens = 0

\* C28: the map lock is never held across I/O or downstream work.  The mutex
\* is held only by a request that is between Lock and Unlock, at the lookup
\* or the insert; a request that is at limiter.Allow, in the downstream
\* handler (where any notification is dispatched), or writing the 429
\* response does not hold it.
C28_NoLockAcrossIO ==
    /\ mu # 0 => reqs[mu].pc \in {"locked", "looked"}
    /\ \A r \in 1..MaxRequests :
           reqs[r].pc \in {"allow", "next", "reject", "done"} => mu # r

\* one request is in the downstream handler and one writes the 429 response
\* while a third holds the mutex
C28_Witness ==
    \E r1, r2, r3 \in 1..MaxRequests :
        /\ reqs[r1].pc = "next"
        /\ reqs[r2].pc = "reject"
        /\ reqs[r3].pc = "looked"
        /\ mu = r3

---------------------------------------------------------------------------
(* Properties of the backoff. *)

\* C27: backoff is linear.  Attempt 0 fires with no wait, and attempt n >= 1
\* fires only when the wait of RetryDelay * n that began with the failure of
\* attempt n-1 has run out, so that the waits before attempt n add up to
\* RetryDelay * n(n+1)/2, which for a positive RetryDelay is never
\* RetryDelay * 2^n.
C27_LinearBackoff ==
    /\ [](/\ pc = "attempt" =>
                /\ obs.waited = config.RetryDelay * ((attempt * (attempt + 1)) \div 2)
                /\ config.RetryDelay > 0 => obs.waited # config.RetryDelay * 2 ^ attempt
          /\ pc = "backoff" => obs.waited + timer =
                                  config.RetryDelay * ((attempt * (attempt + 1)) \div 2))
    /\ [][(pc = "backoff" /\ pc' = "attempt") => (timer = 0 /\ attempt' = attempt)]_vars

\* the third attempt is in flight after waits of RetryDelay and 2 * RetryDelay
C27_Witness ==
    /\ pc = "attempt"
    /\ attempt = 2
    /\ config.RetryDelay > 0
    /\ obs.waited = 3 * config.RetryDelay

---------------------------------------------------------------------------
(* Properties of the health probe. *)

---------------------------------------------------------------------------
(* Properties of the handlers and their checks. *)

\* C21: failures inside the threshold check never reach the HTTP caller.  A
\* check whose registry read failed has read once and dispatched nothing; a
\* check whose dispatch failed has called the Notifier once; a check that has
\* ended does not run again; and the answer to the request that started the
\* check has the status and the message of its operation, whether the check
\* is still running, has ended, or has failed at the read or the dispatch.
C21_CheckFailuresContained ==
    /\ [](/\ (last.kind = "checked" /\ last.failed = "read")
                => (last.reads = 1 /\ last.sent = <<>>)
          /\ (last.kind = "checked" /\ last.failed = "dispatch")
                => (last.reads = 1 /\ Len(last.sent) = 1)
          /\ last.kind = "responded" =>
                /\ last.check \in {"pending", "ended", "read", "dispatch"}
                /\ last.op = "create" =>
                       (last.status = 201 /\ last.message = "Computer created successfully")
                /\ last.op = "update" =>
                       (last.status = 200 /\ last.message = "Computer updated successfully")
                /\ last.op = "assign" =>
                       (/\ last.status = 200
                        /\ last.message = "Computer successfully assigned to employee"))
    /\ [][\A t \in 1..MaxTasks :
              tasks[t].cpc = "done" => tasks'[t].cpc = "done"]_vars

\* a create was answered with 201 after the dispatch of its check had failed
C21_Witness ==
    /\ last.kind = "responded"
    /\ last.op = "create"
    /\ last.check = "dispatch"
    /\ last.status = 201

\* C22: the create, update and assign handlers never wait for the threshold
\* check.  Once the registry call has succeeded and the check is started, the
\* handler can write its answer whatever the check is doing, and it does
\* write it even when the registry read or the dispatch of the check never
\* returns: from some moment on no handler is left waiting to answer.
C22_HandlerNeverWaits ==
    /\ [](\A t \in 1..MaxTasks : tasks[t].hpc = "respond" => ENABLED Respond(t))
    /\ <>[](\A t \in 1..MaxTasks : tasks[t].hpc # "respond")

\* a handler has answered while the dispatch of its check has not returned
C22_Witness ==
    \E t \in 1..MaxTasks :
        /\ tasks[t].hpc = "done"
        /\ tasks[t].cpc = "dispatch"
        /\ last.kind = "responded"
        /\ last.check = "pending"

\* C23: the background threshold check runs under its own bounded timeout,
\* not derived from the context of the request that started it: in the
\* handler and in the service, the context of the registry read of a check
\* and the context of its dispatch do not end with the request's context
\* and have a deadline.
C23_OwnBoundedTimeout ==
    /\ \A t \in 1..MaxTasks :
           /\ tasks[t].cpc = "start" =>
                  /\ ~Done(readContext(checkContext), TRUE)
                  /\ readContext(checkContext).timeout # NoTimeout
           /\ tasks[t].cpc = "dispatch" =>
                  /\ ~Done(WithTimeout("background", config.Timeout), TRUE)
                  /\ WithTimeout("background", config.Timeout).timeout # NoTimeout
    /\ \A c \in 1..MaxCalls :
           /\ calls[c].pc = "check" =>
                  /\ ~Done(readContext(calls[c].ctx), TRUE)
                  /\ readContext(calls[c].ctx).timeout # NoTimeout
           /\ calls[c].pc = "dispatch" =>
                  /\ ~Done(calls[c].ctx, TRUE)
                  /\ calls[c].ctx.timeout # NoTimeout

---------------------------------------------------------------------------
(* Properties of the ComputerService. *)

\* C29: under any interleaving of concurrent CreateComputer calls, creation
\* never leaves an employee with more than MaxComputersPerEmployee
\* computers: a create for an employee who already holds that many is
\* rejected and inserts nothing.
C29_CreateKeepsLimit ==
    /\ [][\A c \in 1..MaxCalls :
              (/\ calls[c].pc = "insert"
               /\ calls[c].emp # ""
               /\ store' # store)
                  => ServiceCount(store', calls[c].emp) <= MaxComputersPerEmployee]_vars
    /\ [](\A c \in 1..MaxCalls :
              (calls[c].pc = "done" /\ calls[c].seen >= MaxComputersPerEmployee)
                  => calls[c].result = "validation")

---------------------------------------------------------------------------
(* Properties of the RequestTimeout middleware. *)

\* C30: at most one party writes each HTTP response: once the timeout branch
\* has written the 408 the handler goroutine never writes to the same
\* response writer, and the timeout branch never writes after the handler
\* has started writing; so the calls of WriteHeader and Write on one
\* response writer are all made by the same party.
C30_SingleWriter ==
    \A r \in 1..MaxTimed :
        \A i, j \in 1..Len(timed[r].writes) :
            timed[r].writes[i].by = timed[r].writes[j].by

====
